---- MODULE Spec2Model ----
(***************************************************************************)
(* Module discovery, phased loading and versioned route mounting of        *)
(* EnduranceApp.setupRoutes (src/internal/app.ts).                         *)
(*                                                                         *)
(* Paths, file names and versions are strings, handled with the string     *)
(* operations the code uses (endsWith, match, replace, path.join,          *)
(* localeCompare).  The file system is fixed during startup: a static      *)
(* directory tree whose regular files are chosen in Init.                  *)
(***************************************************************************)
EXTENDS Integers, Sequences, FiniteSets, TLC

\* Bounds of the model: regular files on disk, a fault counting as one more
\* file; faults on disk (files whose import throws plus directories whose
\* listing fails).
MaxFiles == 3
MaxFaults == 1

-----------------------------------------------------------------------------
(* JavaScript string helpers *)

Char(s, i) == SubSeq(s, i, i)

Digits == {"0", "1", "2", "3", "4", "5", "6", "7", "8", "9"}

IsDigit(c) == c \in Digits

\* String.prototype.endsWith
endsWith(filePath, suffix) ==
    /\ Len(filePath) >= Len(suffix)
    /\ SubSeq(filePath, Len(filePath) - Len(suffix) + 1, Len(filePath)) = suffix

\* String.prototype.startsWith
startsWith(s, prefix) ==
    /\ Len(s) >= Len(prefix)
    /\ SubSeq(s, 1, Len(prefix)) = prefix

\* String.prototype.indexOf, 1-based; 0 when pat does not occur in s
indexOf(s, pat) ==
    LET hits == {i \in 1..(Len(s) - Len(pat) + 1) :
                    SubSeq(s, i, i + Len(pat) - 1) = pat}
    IN IF hits = {} THEN 0 ELSE CHOOSE i \in hits : \A j \in hits : i <= j

\* String.prototype.replace(pat, '') with a string pattern: the first
\* occurrence only
replaceFirst(s, pat) ==
    LET i == indexOf(s, pat)
    IN IF i = 0 THEN s
       ELSE SubSeq(s, 1, i - 1) \o SubSeq(s, i + Len(pat), Len(s))

\* path.join of a folder and an entry name
join(folderPath, file) == folderPath \o "/" \o file

\* path.basename(file, ext)
basename(file, ext) ==
    IF endsWith(file, ext)
    THEN SubSeq(file, 1, Len(file) - Len(ext))
    ELSE file

-----------------------------------------------------------------------------
(* The file system at startup.  The directory tree is fixed; which of its  *)
(* regular files are on disk (fsFiles) and which of them throw when         *)
(* imported (broken) is chosen in Init.                                     *)

VARIABLES
    fsFiles,          \* paths of the regular files on disk
    broken,           \* paths whose import throws (top-level code fails)
    unreadable,       \* directories whose listing fails (readdirSync throws)
    pc,               \* position of setupRoutes/loadServer
    moduleEntries,    \* loadMarketplaceModules: moduleEntries
    work,             \* pending steps of the walk in progress, in await order
    routesMap,        \* routesMap: insertion-ordered basePath -> version -> filePath
    registered,       \* every registration made in routesMap, in order
    bpIdx,            \* mount loop: index of the base path being mounted
    vIdx,             \* mount loop: index into sortedVersions
    stack,            \* this.app handler stack, in app.use order
    swaggerApiFiles,  \* this.swaggerApiFiles
    log,              \* logger.error / logger.warn lines
    imports,          \* every import() started, in order
    resp,             \* the last request dispatched through the stack
    run,              \* which start of the server this is, on the same disk
    firstStack,       \* the handler stack the first start ended with
    inFlight,         \* the import() steps started and not yet settled
    settled,          \* paths of the imports that resolved or rejected, in order
    enableSwagger,    \* process.env.SWAGGER !== 'false'
    isDirectUsage,    \* this.isDirectUsage, set by the constructor
    launch,           \* what the constructor finds: file path, environment
    mongodbHost,      \* process.env.MONGODB_HOST is set
    swaggerCall,      \* the call of generateSwaggerSpec: made or not, its argument
    server,           \* position of setupDatabase / startServer
    emitted,          \* number of APP_STARTED events emitted
    tools,            \* mcp/tools/index.ts: the module-level Map tools
    resources,        \* mcp/resources/index.ts: the module-level Map resources
    disk,             \* the project files and folders the MCP tools work on
    calls,            \* tool handlers started and not yet returned
    results,          \* what the finished tool handlers returned
    answer,           \* the last reply of the tool registry (list or get)
    requests          \* number of MCP requests received

vars == <<fsFiles, broken, unreadable, pc, moduleEntries, work, routesMap, registered,
          bpIdx, vIdx, stack, swaggerApiFiles, log, imports, resp, run,
          firstStack, inFlight, settled, enableSwagger, isDirectUsage,
          launch, mongodbHost, swaggerCall, server, emitted,
          tools, resources, disk, calls, results, answer, requests>>

\* process.cwd()
Cwd == "/app"

nodeModulesPath == join(Cwd, "node_modules")

localModulesPath == join(Cwd, "modules")

\* Directory listings, in the order fs.readdirSync returns them.  Every
\* directory exists; an entry that is not itself a directory is a regular
\* file, on disk iff it is in fsFiles.
Listing ==
    ("/app" :> <<"dist", "modules", "node_modules">>)
 @@ ("/app/node_modules" :> <<"@org", "edrm-a", "edrm-b", "express">>)
 @@ ("/app/node_modules/@org" :> <<"edrm-c", "tool">>)
 @@ ("/app/node_modules/@org/tool" :> <<>>)
 @@ ("/app/node_modules/@org/edrm-c" :> <<"routes">>)
 @@ ("/app/node_modules/@org/edrm-c/routes" :> <<"c.router.js">>)
 @@ ("/app/node_modules/express" :> <<>>)
 @@ ("/app/node_modules/edrm-a" :> <<"dist", "middlewares">>)
 @@ ("/app/node_modules/edrm-a/middlewares" :> <<>>)
 @@ ("/app/node_modules/edrm-a/dist" :>
        <<"listeners", "middlewares", "public", "routes">>)
 @@ ("/app/node_modules/edrm-a/dist/listeners" :> <<"order.listener.js">>)
 @@ ("/app/node_modules/edrm-a/dist/middlewares" :> <<"auth.middleware.js">>)
 @@ ("/app/node_modules/edrm-a/dist/public" :> <<"index.html">>)
 @@ ("/app/node_modules/edrm-a/dist/routes" :>
        <<"a.10.router.js", "a.2.router.js">>)
 @@ ("/app/node_modules/edrm-b" :> <<"crons", "middlewares", "routes">>)
 @@ ("/app/node_modules/edrm-b/crons" :> <<"crons", "tick.cron.js">>)
 @@ ("/app/node_modules/edrm-b/crons/crons" :> <<>>)
 @@ ("/app/node_modules/edrm-b/middlewares" :> <<"acl.middleware.js">>)
 @@ ("/app/node_modules/edrm-b/routes" :> <<"b.3.router.js">>)
 @@ ("/app/modules" :> <<"edrm-a">>)
 @@ ("/app/modules/edrm-a" :> <<"listeners", "middlewares", "routes">>)
 @@ ("/app/modules/edrm-a/listeners" :> <<"order.listener.js">>)
 @@ ("/app/modules/edrm-a/middlewares" :> <<"auth.middleware.js">>)
 @@ ("/app/modules/edrm-a/routes" :> <<"a.2.router.js">>)
 @@ ("/app/modules/edrm-b/extras" :> <<"listeners">>)
 @@ ("/app/modules/edrm-b/extras/listeners" :> <<>>)
 @@ ("/app/dist" :> <<"modules">>)
 @@ ("/app/dist/modules" :> <<"shop">>)
 @@ ("/app/dist/modules/shop" :>
        <<"listeners", "middlewares", "public", "routes", "subroutes">>)
 @@ ("/app/dist/modules/shop/public" :> <<"assets", "listeners", "routes">>)
 @@ ("/app/dist/modules/shop/public/assets" :> <<>>)
 @@ ("/app/dist/modules/shop/public/listeners" :> <<>>)
 @@ ("/app/dist/modules/shop/public/routes" :> <<>>)
 @@ ("/app/dist/modules/shop/subroutes" :> <<>>)
 @@ ("/app/dist/modules/shop/listeners" :> <<"listeners", "mail.listener.js">>)
 @@ ("/app/dist/modules/shop/listeners/listeners" :> <<>>)
 @@ ("/app/dist/modules/shop/middlewares" :>
        <<"log.middleware.js", "middlewares">>)
 @@ ("/app/dist/modules/shop/middlewares/middlewares" :> <<>>)
 @@ ("/app/dist/modules/shop/routes" :>
        <<"a.2.router.js", "a.router.js", "b.router.js", "listeners", "routes">>)
 @@ ("/app/dist/modules/shop/routes/listeners" :> <<>>)
 @@ ("/app/dist/modules/shop/routes/routes" :> <<>>)

Dirs == DOMAIN Listing

\* Every regular file the tree can hold
FileUniverse ==
    UNION {{join(d, Listing[d][i]) : i \in 1..Len(Listing[d])} : d \in Dirs}
        \ Dirs

\* fs.existsSync && fs.statSync(p).isDirectory()
isDirectory(filePath) == filePath \in Dirs

\* fs.existsSync
existsSync(filePath) == filePath \in Dirs \/ filePath \in fsFiles

\* Directories that may be unreadable
UnreadableDirs ==
    {"/app/node_modules/@org", "/app/node_modules/edrm-a/dist/routes",
     "/app/dist/modules"}

\* fs.readdirSync(folderPath) returns rather than throws
canRead(folderPath) == isDirectory(folderPath) /\ folderPath \notin unreadable

\* Names of the regular files on disk directly in folderPath that Listing
\* does not name
unlistedFiles(folderPath) ==
    {SubSeq(f, Len(folderPath) + 2, Len(f)) :
        f \in {g \in fsFiles :
                 /\ startsWith(g, folderPath \o "/")
                 /\ indexOf(SubSeq(g, Len(folderPath) + 2, Len(g)), "/") = 0
                 /\ \A i \in 1..Len(Listing[folderPath]) :
                       g # join(folderPath, Listing[folderPath][i])}}

RECURSIVE setToSeq(_)
setToSeq(S) ==
    IF S = {} THEN <<>>
    ELSE LET x == CHOOSE y \in S : TRUE IN <<x>> \o setToSeq(S \ {x})

\* Bug variant of readdirSync: the second start sees the entries in the
\* opposite order
readdirSyncUnstable(folderPath) ==
    LET files == SelectSeq(Listing[folderPath],
                           LAMBDA file : existsSync(join(folderPath, file)))
                 \o setToSeq(unlistedFiles(folderPath))
    IN IF run = 1 THEN files
       ELSE [i \in 1..Len(files) |-> files[Len(files) + 1 - i]]

\* fs.readdirSync of a readable directory: the listed entries that exist,
\* then the files Listing does not name
readdirSync(folderPath) ==
    SelectSeq(Listing[folderPath],
              LAMBDA file : existsSync(join(folderPath, file)))
    \o setToSeq(unlistedFiles(folderPath))

-----------------------------------------------------------------------------
(* The walkers.  A walk is returned as the sequence of steps it awaits, in *)
(* order: the file system does not change during startup and every error   *)
(* of a step is caught where it is raised, so the order is a function of   *)
(* the file system alone.                                                  *)

\* overrideFilePath of a file of the folder being walked ("" for null)
overrideFilePathOf(overridePath, file) ==
    IF overridePath # "" THEN join(overridePath, file) ELSE ""

\* Bug variant of hasOverride: the override root is never consulted
hasOverrideIgnored(overridePath, file) == FALSE

\* hasOverride
hasOverride(overridePath, file) ==
    /\ overrideFilePathOf(overridePath, file) # ""
    /\ existsSync(overrideFilePathOf(overridePath, file))

\* The entry readModulesFolder pushes into a bucket for a regular file
bucketEntry(folderPath, overridePath, file) ==
    [folderPath |-> IF hasOverride(overridePath, file) THEN overridePath
                    ELSE folderPath,
     file |-> file,
     actualFilePath |-> IF hasOverride(overridePath, file)
                        THEN overrideFilePathOf(overridePath, file)
                        ELSE join(folderPath, file)]

isMiddlewareEntry(e) ==
    endsWith(e.file, ".middleware.js") /\ endsWith(e.folderPath, "middlewares")

isRouterEntry(e) ==
    /\ ~isMiddlewareEntry(e)
    /\ endsWith(e.file, ".router.js") /\ endsWith(e.folderPath, "routes")

\* The unit test of processFile: a file imported for its side effects
isUnitFile(folderPath, file) ==
    \/ endsWith(file, ".listener.js") /\ endsWith(folderPath, "listeners")
    \/ endsWith(file, ".consumer.js") /\ endsWith(folderPath, "consumers")
    \/ endsWith(file, ".middleware.js") /\ endsWith(folderPath, "middlewares")
    \/ endsWith(file, ".cron.js") /\ endsWith(folderPath, "crons")

ImportStep(by, filePath, file) ==
    [kind |-> "import", by |-> by, path |-> filePath, file |-> file]

StaticStep(folderPath) ==
    [kind |-> "static", by |-> "processFile", path |-> folderPath, file |-> ""]

RouteStep(filePath, file) ==
    [kind |-> "route", by |-> "processFile", path |-> filePath, file |-> file]

\* A line for logger.error / logger.warn
LogStep(by, line) ==
    [kind |-> "log", by |-> by, path |-> line, file |-> ""]

RECURSIVE processFile(_, _, _)
RECURSIVE readModulesFolder(_, _, _)
RECURSIVE processEntries(_)
RECURSIVE readDirectories(_, _, _, _)

processFile(folderPath, file, actualFilePath) ==
    LET filePath == IF actualFilePath # "" THEN actualFilePath
                    ELSE join(folderPath, file)
    IN IF isDirectory(filePath) THEN readModulesFolder(filePath, filePath, FALSE)
       ELSE IF endsWith(folderPath, "public") THEN <<StaticStep(folderPath)>>
       ELSE IF isUnitFile(folderPath, file)
            THEN <<ImportStep("processFile", filePath, file)>>
       ELSE IF endsWith(file, ".router.js") /\ endsWith(folderPath, "routes")
            THEN <<RouteStep(filePath, file)>>
       ELSE <<>>

\* for (const { folderPath: fp, file, actualFilePath } of bucket)
processEntries(bucket) ==
    IF bucket = <<>> THEN <<>>
    ELSE processFile(Head(bucket).folderPath, Head(bucket).file,
                     Head(bucket).actualFilePath)
         \o processEntries(Tail(bucket))

\* for (const dir of directories)
readDirectories(directories, folderPath, overridePath, skipMiddlewares) ==
    IF directories = <<>> THEN <<>>
    ELSE readModulesFolder(join(folderPath, Head(directories)),
                           overrideFilePathOf(overridePath, Head(directories)),
                           skipMiddlewares)
         \o readDirectories(Tail(directories), folderPath, overridePath,
                            skipMiddlewares)

\* Bug variant of readModulesFolder: the route files of a directory are
\* registered before its subdirectories are walked
readModulesFolderRoutesEarly(folderPath, overridePath, skipMiddlewares) ==
    IF ~canRead(folderPath)
    THEN <<LogStep("readModulesFolder", "Error reading directory:")>>
    ELSE
    LET files == readdirSync(folderPath)
        directories ==
            SelectSeq(files, LAMBDA f : isDirectory(join(folderPath, f)))
        regular ==
            SelectSeq(files, LAMBDA f : ~isDirectory(join(folderPath, f)))
        entries == [i \in 1..Len(regular) |->
                       bucketEntry(folderPath, overridePath, regular[i])]
        middlewareFiles == SelectSeq(entries, isMiddlewareEntry)
        routerFiles == SelectSeq(entries, isRouterEntry)
        otherFiles ==
            SelectSeq(entries,
                      LAMBDA e : ~isMiddlewareEntry(e) /\ ~isRouterEntry(e))
    IN (IF skipMiddlewares THEN <<>> ELSE processEntries(middlewareFiles))
       \o processEntries(routerFiles)
       \o processEntries(otherFiles)
       \o readDirectories(directories, folderPath, overridePath, skipMiddlewares)

readModulesFolder(folderPath, overridePath, skipMiddlewares) ==
    IF ~canRead(folderPath)
    THEN <<LogStep("readModulesFolder", "Error reading directory:")>>
    ELSE
    LET files == readdirSync(folderPath)
        directories ==
            SelectSeq(files, LAMBDA f : isDirectory(join(folderPath, f)))
        regular ==
            SelectSeq(files, LAMBDA f : ~isDirectory(join(folderPath, f)))
        entries == [i \in 1..Len(regular) |->
                       bucketEntry(folderPath, overridePath, regular[i])]
        middlewareFiles == SelectSeq(entries, isMiddlewareEntry)
        routerFiles == SelectSeq(entries, isRouterEntry)
        otherFiles ==
            SelectSeq(entries,
                      LAMBDA e : ~isMiddlewareEntry(e) /\ ~isRouterEntry(e))
    IN (IF skipMiddlewares THEN <<>> ELSE processEntries(middlewareFiles))
       \o processEntries(otherFiles)
       \o readDirectories(directories, folderPath, overridePath, skipMiddlewares)
       \o processEntries(routerFiles)

RECURSIVE loadMiddlewaresOnly(_, _)
RECURSIVE loadMiddlewaresOnlyFiles(_, _, _)

\* for (const file of files) of loadMiddlewaresOnly
loadMiddlewaresOnlyFiles(files, folderPath, overridePath) ==
    IF files = <<>> THEN <<>>
    ELSE
    LET file == Head(files)
        filePath == join(folderPath, file)
        actualFilePath == IF hasOverride(overridePath, file)
                          THEN overrideFilePathOf(overridePath, file)
                          ELSE filePath
        this ==
            IF isDirectory(filePath)
            THEN loadMiddlewaresOnly(filePath,
                                     overrideFilePathOf(overridePath, file))
            ELSE IF endsWith(file, ".middleware.js")
                    /\ endsWith(folderPath, "middlewares")
                 THEN <<ImportStep("loadMiddlewaresOnly", actualFilePath, file)>>
            ELSE <<>>
    IN this \o loadMiddlewaresOnlyFiles(Tail(files), folderPath, overridePath)

loadMiddlewaresOnly(folderPath, overridePath) ==
    IF ~canRead(folderPath) THEN <<>>
    ELSE loadMiddlewaresOnlyFiles(readdirSync(folderPath), folderPath,
                                  overridePath)

-----------------------------------------------------------------------------
(* Module discovery (loadMarketplaceModules, first part) *)

ModuleEntry(name, fullPath) ==
    [name |-> name,
     path |-> fullPath,
     distPath |-> IF isDirectory(join(fullPath, "dist"))
                  THEN join(fullPath, "dist") ELSE "",
     basePath |-> IF isDirectory(fullPath) THEN fullPath ELSE ""]

RECURSIVE scopedEntriesAnyEntry(_, _)
\* Bug variant of scopedEntries: an entry with the prefix is registered
\* whether or not it is a directory
scopedEntriesAnyEntry(moduleName, scopedPackages) ==
    IF scopedPackages = <<>> THEN <<>>
    ELSE
    LET pkg == Head(scopedPackages)
        scopedPath == join(join(nodeModulesPath, moduleName), pkg)
    IN (IF startsWith(pkg, "edrm-")
        THEN <<ModuleEntry(moduleName \o "/" \o pkg, scopedPath)>>
        ELSE <<>>)
       \o scopedEntriesAnyEntry(moduleName, Tail(scopedPackages))

RECURSIVE scopedEntries(_, _)
\* for (const pkg of scopedPackages)
scopedEntries(moduleName, scopedPackages) ==
    IF scopedPackages = <<>> THEN <<>>
    ELSE
    LET pkg == Head(scopedPackages)
        scopedPath == join(join(nodeModulesPath, moduleName), pkg)
    IN (IF startsWith(pkg, "edrm-") /\ isDirectory(scopedPath)
        THEN <<ModuleEntry(moduleName \o "/" \o pkg, scopedPath)>>
        ELSE <<>>)
       \o scopedEntries(moduleName, Tail(scopedPackages))

RECURSIVE rootEntries(_)
\* for (const moduleName of rootModules)
rootEntries(rootModules) ==
    IF rootModules = <<>> THEN <<>>
    ELSE
    LET moduleName == Head(rootModules)
        fullPath == join(nodeModulesPath, moduleName)
    IN (IF startsWith(moduleName, "edrm-") /\ isDirectory(fullPath)
        THEN <<ModuleEntry(moduleName, fullPath)>> ELSE <<>>)
       \o (IF startsWith(moduleName, "@") /\ isDirectory(fullPath)
           THEN scopedEntries(moduleName, readdirSync(fullPath)) ELSE <<>>)
       \o rootEntries(Tail(rootModules))

\* The discovery loop throws: the listing of node_modules or of a scope
\* directory fails (caught by the catch of loadMarketplaceModules)
discoveryThrows ==
    \/ ~canRead(nodeModulesPath)
    \/ \E i \in 1..Len(Listing[nodeModulesPath]) :
          LET moduleName == Listing[nodeModulesPath][i]
          IN /\ startsWith(moduleName, "@")
             /\ isDirectory(join(nodeModulesPath, moduleName))
             /\ ~canRead(join(nodeModulesPath, moduleName))

\* path.join(localModulesPath, ...moduleEntry.name.split('/'))
localModulePath(moduleEntry) == join(localModulesPath, moduleEntry.name)

\* Bug variant of modulePath: the module's own root even when it has a dist
modulePathBase(moduleEntry) == moduleEntry.basePath

\* moduleEntry.distPath || moduleEntry.basePath
modulePath(moduleEntry) ==
    IF moduleEntry.distPath # "" THEN moduleEntry.distPath
    ELSE moduleEntry.basePath

\* The local project tree: dist/modules if it is a directory, else src/modules
modulesFolder ==
    IF isDirectory(join(Cwd, "dist/modules")) THEN join(Cwd, "dist/modules")
    ELSE join(Cwd, "src/modules")

\* Bug variant of localWalk: the local tree walked as a module's content phase
localWalkSkippingMiddlewares == readModulesFolder(modulesFolder, "", TRUE)

\* The walk of the local project tree, middlewares included
localWalk == readModulesFolder(modulesFolder, "", FALSE)

\* Bug variant of middlewarePhase: no middleware-only pass over the modules
middlewarePhaseMissing(entries) == <<>>

RECURSIVE middlewarePhase(_)
\* Phase 1: for (const moduleEntry of moduleEntries) loadMiddlewaresOnly
middlewarePhase(entries) ==
    IF entries = <<>> THEN <<>>
    ELSE (IF modulePath(Head(entries)) # ""
          THEN loadMiddlewaresOnly(modulePath(Head(entries)),
                                   localModulePath(Head(entries)))
          ELSE <<>>)
         \o middlewarePhase(Tail(entries))

RECURSIVE contentPhaseReloading(_)
\* Bug variant of contentPhase: the content phase does not skip middlewares
\* Phase 2: for (const moduleEntry of moduleEntries) readModulesFolder(.., true)
contentPhaseReloading(entries) ==
    IF entries = <<>> THEN <<>>
    ELSE (IF modulePath(Head(entries)) # ""
          THEN readModulesFolder(modulePath(Head(entries)),
                                 localModulePath(Head(entries)), FALSE)
          ELSE <<LogStep("loadMarketplaceModules",
                         "Module " \o Head(entries).name
                         \o " has no usable folder (dist or base).")>>)
         \o contentPhaseReloading(Tail(entries))

RECURSIVE contentPhase(_)
\* Phase 2: for (const moduleEntry of moduleEntries) readModulesFolder(.., true)
contentPhase(entries) ==
    IF entries = <<>> THEN <<>>
    ELSE (IF modulePath(Head(entries)) # ""
          THEN readModulesFolder(modulePath(Head(entries)),
                                 localModulePath(Head(entries)), TRUE)
          ELSE <<LogStep("loadMarketplaceModules",
                         "Module " \o Head(entries).name
                         \o " has no usable folder (dist or base).")>>)
         \o contentPhase(Tail(entries))

-----------------------------------------------------------------------------
(* Route registration: version token, base path, routesMap *)

\* JavaScript null; a template literal renders it as the text "null"
Null == "null"

\* Index of the first digit of s, 0 if it has none
firstDigit(s) ==
    LET ds == {i \in 1..Len(s) : IsDigit(Char(s, i))}
    IN IF ds = {} THEN 0 ELSE CHOOSE i \in ds : \A j \in ds : i <= j

RECURSIVE digitRunEnd(_, _)
\* Last index of the maximal run of digits of s that starts at i (greedy \d+)
digitRunEnd(s, i) ==
    IF i < Len(s) /\ IsDigit(Char(s, i + 1)) THEN digitRunEnd(s, i + 1) ELSE i

\* "." followed by a digit at position i of s
dotDigitAt(s, i) ==
    i + 1 <= Len(s) /\ Char(s, i) = "." /\ IsDigit(Char(s, i + 1))

\* filename.match(/v?(\d+\.\d+\.\d+|\d+)/): group 1 of the leftmost match.
\* The leftmost match starts at the first digit (or at a "v" right before
\* it); the group is three dot-separated digit runs if the text there has
\* that shape, and the first digit run alone otherwise.
extractVersion(filename) ==
    LET d == firstDigit(filename)
        e1 == digitRunEnd(filename, d)
        e2 == digitRunEnd(filename, e1 + 2)
        e3 == digitRunEnd(filename, e2 + 2)
    IN IF d = 0 THEN Null
       ELSE IF dotDigitAt(filename, e1 + 1) /\ dotDigitAt(filename, e2 + 1)
            THEN SubSeq(filename, d, e3)
       ELSE SubSeq(filename, d, e1)

\* `/${routerName.replace(`.${version}`, '')}`
basePathOf(routerName, version) ==
    "/" \o replaceFirst(routerName, "." \o version)

\* version || 'default'
versionKey(version) == IF version = Null THEN "default" ELSE version

\* Index of basePath in routesMap, 0 if absent
basePathIndex(map, basePath) ==
    IF \E i \in 1..Len(map) : map[i].basePath = basePath
    THEN CHOOSE i \in 1..Len(map) : map[i].basePath = basePath
    ELSE 0

\* Bug variant of versionsSet: an existing key keeps its value
versionsSetKeepFirst(versions, version, filePath) ==
    IF \E i \in 1..Len(versions) : versions[i].version = version
    THEN versions
    ELSE Append(versions, [version |-> version, filePath |-> filePath])

\* Map.prototype.set on an insertion-ordered map kept as a sequence of
\* [version, filePath]: an existing key keeps its position
versionsSet(versions, version, filePath) ==
    IF \E i \in 1..Len(versions) : versions[i].version = version
    THEN [i \in 1..Len(versions) |->
            IF versions[i].version = version
            THEN [version |-> version, filePath |-> filePath]
            ELSE versions[i]]
    ELSE Append(versions, [version |-> version, filePath |-> filePath])

\* processFile, route branch: what the file at filePath is registered as
registration(file, filePath) ==
    LET routerName == basename(file, ".router.js")
        version == extractVersion(routerName)
    IN [basePath |-> basePathOf(routerName, version),
        version |-> versionKey(version),
        filePath |-> filePath]

\* processFile, route branch: routesMap after registering file at filePath
registerRoute(map, file, filePath) ==
    LET basePath == registration(file, filePath).basePath
        version == registration(file, filePath).version
        withBase == IF basePathIndex(map, basePath) = 0
                    THEN Append(map, [basePath |-> basePath, versions |-> <<>>])
                    ELSE map
        k == basePathIndex(withBase, basePath)
    IN [withBase EXCEPT
          ![k].versions = versionsSet(@, version, filePath)]

-----------------------------------------------------------------------------
(* Version ordering and mounting *)

DigitValue ==
    ("0" :> 0) @@ ("1" :> 1) @@ ("2" :> 2) @@ ("3" :> 3) @@ ("4" :> 4)
    @@ ("5" :> 5) @@ ("6" :> 6) @@ ("7" :> 7) @@ ("8" :> 8) @@ ("9" :> 9)

RECURSIVE toNumber(_)
\* Value of a run of decimal digits
toNumber(ds) ==
    IF ds = "" THEN 0
    ELSE 10 * toNumber(SubSeq(ds, 1, Len(ds) - 1)) + DigitValue[Char(ds, Len(ds))]

RECURSIVE localeCompare(_, _)
\* a.localeCompare(b, undefined, { numeric: true, sensitivity: 'base' }) on
\* texts made of digits and dots: runs of digits compare by value, a dot
\* sorts before a digit, a proper prefix sorts first.
localeCompare(a, b) ==
    IF a = "" THEN (IF b = "" THEN 0 ELSE -1)
    ELSE IF b = "" THEN 1
    ELSE IF IsDigit(Char(a, 1)) /\ IsDigit(Char(b, 1))
         THEN LET ea == digitRunEnd(a, 1)
                  eb == digitRunEnd(b, 1)
                  na == toNumber(SubSeq(a, 1, ea))
                  nb == toNumber(SubSeq(b, 1, eb))
              IN IF na < nb THEN -1
                 ELSE IF na > nb THEN 1
                 ELSE localeCompare(SubSeq(a, ea + 1, Len(a)),
                                    SubSeq(b, eb + 1, Len(b)))
    ELSE IF Char(a, 1) = Char(b, 1)
         THEN localeCompare(SubSeq(a, 2, Len(a)), SubSeq(b, 2, Len(b)))
    ELSE IF IsDigit(Char(b, 1)) THEN -1 ELSE 1

RECURSIVE lexicalCompare(_, _)
\* Code-unit order of texts made of digits and dots
lexicalCompare(a, b) ==
    IF a = "" THEN (IF b = "" THEN 0 ELSE -1)
    ELSE IF b = "" THEN 1
    ELSE IF Char(a, 1) = Char(b, 1)
         THEN lexicalCompare(SubSeq(a, 2, Len(a)), SubSeq(b, 2, Len(b)))
    ELSE IF Char(a, 1) = "." THEN -1
    ELSE IF Char(b, 1) = "." THEN 1
    ELSE IF DigitValue[Char(a, 1)] < DigitValue[Char(b, 1)] THEN -1 ELSE 1

\* Bug variant of compareVersions: plain lexical comparison of the versions
compareVersionsLexical(a, b) ==
    IF a = "default" THEN -1
    ELSE IF b = "default" THEN 1
    ELSE lexicalCompare(a, b)

\* The comparator passed to sort
compareVersions(a, b) ==
    IF a = "default" THEN -1
    ELSE IF b = "default" THEN 1
    ELSE localeCompare(a, b)

RECURSIVE insertSorted(_, _)
insertSorted(sorted, x) ==
    IF sorted = <<>> THEN <<x>>
    ELSE IF compareVersions(x, Head(sorted)) < 0 THEN <<x>> \o sorted
    ELSE <<Head(sorted)>> \o insertSorted(Tail(sorted), x)

RECURSIVE sortVersions(_)
\* Array.prototype.sort (stable) with compareVersions
sortVersions(keys) ==
    IF keys = <<>> THEN <<>>
    ELSE insertSorted(sortVersions(SubSeq(keys, 1, Len(keys) - 1)),
                      keys[Len(keys)])

\* Array.from(versionsMap.keys()).sort(...)
sortedVersions(versions) ==
    sortVersions([i \in 1..Len(versions) |-> versions[i].version])

\* versionsMap.get(version)
versionsGet(versions, version) ==
    versions[CHOOSE i \in 1..Len(versions) :
                 versions[i].version = version].filePath

\* Bug variant of versionedPath: the version prefix is dropped
versionedPathUnversioned(basePath, version) == basePath

\* loadRoutes: versionedPath
versionedPath(basePath, version) ==
    IF version # Null THEN "/v" \o version \o basePath ELSE basePath

\* import('file:///' + filePath) resolves
importOk(filePath) == filePath \in fsFiles /\ filePath \notin broken

\* Files whose import, when it rejects, rejects with an AggregateError of
\* two errors; every other file rejects with a single Error
AggregateThrowers ==
    {"/app/node_modules/edrm-a/dist/middlewares/auth.middleware.js",
     "/app/dist/modules/shop/listeners/mail.listener.js",
     "/app/node_modules/edrm-b/crons/tick.cron.js",
     "/app/dist/modules/shop/routes/a.router.js",
     "/app/node_modules/edrm-a/dist/routes/a.2.router.js"}

\* err instanceof AggregateError
isAggregateError(filePath) == filePath \in AggregateThrowers

\* err.errors of an AggregateError, the error itself otherwise: the text
\* (stack || message) of each
errorsOf(filePath) ==
    IF isAggregateError(filePath)
    THEN <<"TypeError: first cause", "RangeError: second cause">>
    ELSE <<"Error: cause">>

\* The text of err itself
errorText(filePath) ==
    IF isAggregateError(filePath)
    THEN "AggregateError: All promises were rejected"
    ELSE errorsOf(filePath)[1]

\* The catch of loadRoutes: a line naming the file, then one logger.error
\* call for each of err.errors, or one for err
loadRoutesLog(lg, filePath) ==
    IF importOk(filePath) THEN lg
    ELSE Append(lg, "Error loading routes from " \o filePath \o ":")
         \o errorsOf(filePath)

\* The catch of processFile: logger.error(`Error loading file ...:`, err)
processFileLog(lg, filePath) ==
    IF importOk(filePath) THEN lg
    ELSE Append(lg, "Error loading file " \o filePath \o ": "
                    \o errorText(filePath))

\* The catch of loadMiddlewaresOnly:
\* logger.error(`Error loading middleware ${file}:`, err)
loadMiddlewaresOnlyLog(lg, file, filePath) ==
    IF importOk(filePath) THEN lg
    ELSE Append(lg, "Error loading middleware " \o file \o ": "
                    \o errorText(filePath))

RouterLayer(path, filePath) ==
    [kind |-> "router", path |-> path, file |-> filePath, target |-> ""]

\* The middleware of lines 416-419: req.url = previousPath + req.url; next()
FallbackLayer(fallbackPath, previousPath) ==
    [kind |-> "fallback", path |-> fallbackPath, file |-> "",
     target |-> previousPath]

StaticLayer(folderPath) ==
    [kind |-> "static", path |-> "", file |-> folderPath, target |-> ""]

\* The middleware that answers /favicon.ico and passes every other request on
FaviconLayer == [kind |-> "favicon", path |-> "", file |-> "", target |-> ""]

\* setupSwagger: app.get('/api-docs/swagger.json'), app.use('/api-docs')
SwaggerLayers ==
    <<[kind |-> "docs", path |-> "/api-docs/swagger.json", file |-> "",
       target |-> ""],
      [kind |-> "docs", path |-> "/api-docs", file |-> "", target |-> ""]>>

\* app.get('/cause-error'); NODE_ENV is taken not to be 'production'
CauseErrorLayer ==
    [kind |-> "causeError", path |-> "/cause-error", file |-> "", target |-> ""]

\* session({..., store}) with the MemoryStore or the store of the database
SessionLayer(store) ==
    [kind |-> "session", path |-> "", file |-> store, target |-> ""]

\* The end of loadServer after the mount loop, in app.use order
loadServerTail(swagger) ==
    <<FaviconLayer>> \o (IF swagger THEN SwaggerLayers ELSE <<>>)
    \o <<CauseErrorLayer>>

\* previousPath of the fallback rule of sorted[index] (index > 1)
previousPath(basePath, previousVersion) == "/v" \o previousVersion \o basePath

fallbackPath(basePath, version) == "/v" \o version \o basePath

-----------------------------------------------------------------------------
(* Request dispatch through the handler stack (app.use layers, in order) *)

\* A layer mounted at layerPath sees url: prefix match on a path boundary
layerMatches(layerPath, url) ==
    \/ layerPath = ""
    \/ /\ startsWith(url, layerPath)
       /\ \/ Len(url) = Len(layerPath)
          \/ Char(url, Len(layerPath) + 1) = "/"

\* req.url inside a layer mounted at layerPath: the mount path is removed
strippedUrl(layerPath, url) ==
    LET rest == SubSeq(url, Len(layerPath) + 1, Len(url))
    IN IF rest = "" THEN "/" ELSE rest

\* The faults chosen for a disk that holds the files S are within the bounds
faultsFit(S, B, U) ==
    /\ Cardinality(B) + Cardinality(U) <= MaxFaults
    /\ Cardinality(S) + Cardinality(B) + Cardinality(U) <= MaxFiles

NoResp ==
    [url |-> "", owner |-> "", servedBy |-> "", at |-> "", sub |-> "",
     finalUrl |-> "", rewrites |-> 0]

mcpVars == <<tools, resources, disk, calls, results, answer, requests>>

-----------------------------------------------------------------------------
(* Direct and indirect usage (the constructor's classification) *)

\* The constructor's inputs are left open: isDirectUsage is chosen freely
NoLaunch == [path |-> ""]

\* String.prototype.includes
includes(s, pat) == indexOf(s, pat) > 0

\* /edrm-[^/]+\/node_modules\/@programisto\/endurance/.test(s)
edrmPatternTest(s) ==
    \E i \in 1..Len(s) :
        /\ startsWith(SubSeq(s, i, Len(s)), "edrm-")
        /\ LET rest == SubSeq(s, i + 5, Len(s))
               k == indexOf(rest, "/")
           IN /\ k > 1
              /\ startsWith(SubSeq(rest, k, Len(rest)),
                            "/node_modules/@programisto/endurance")

\* isInMainProjectNodeModules(normalizedPath)
isInMainProjectNodeModules(normalizedPath) ==
    LET nodeModulesIndex == indexOf(normalizedPath, "/node_modules/")
        afterFirstNodeModules ==
            SubSeq(normalizedPath, nodeModulesIndex + Len("/node_modules/"),
                   Len(normalizedPath))
        pathBeforeNodeModules == SubSeq(normalizedPath, 1, nodeModulesIndex - 1)
        expectedPath == Cwd \o "/node_modules/@programisto/endurance"
    IN IF nodeModulesIndex # 0 /\ edrmPatternTest(afterFirstNodeModules)
       THEN FALSE
       ELSE IF /\ nodeModulesIndex # 0
               /\ startsWith(afterFirstNodeModules, "@programisto/endurance")
               /\ ~includes(pathBeforeNodeModules, "/node_modules/")
       THEN TRUE
       ELSE /\ startsWith(normalizedPath, expectedPath)
            /\ ~includes(Cwd, "/node_modules/")

\* What isSymlinkOrSource meets: `require` is not defined in an ES module
\* (the call throws into the catch), the package.json two folders up is
\* missing, the file is reached through a symlink, the package.json is the
\* package's own with a dev or build script, or none of these
SymlinkOrSourceCases ==
    {"requireThrows", "noPackageJson", "symlink", "devContext", "plain"}

\* isSymlinkOrSource()
isSymlinkOrSource(case) ==
    CASE case = "requireThrows" -> TRUE
      [] case = "noPackageJson" -> FALSE
      [] case = "symlink" -> TRUE
      [] case = "devContext" -> TRUE
      [] OTHER -> FALSE

\* isTestEnvironment
isTestEnvironment(l) ==
    \/ l.testEnv
    \/ includes(l.path, "/__tests__/")
    \/ includes(l.path, "/node_modules/jest/")

\* this.isDirectUsage as the constructor sets it
directUsage(l) ==
    IF l.directUsageEnv = "true" THEN TRUE
    ELSE IF l.directUsageEnv = "false" \/ isTestEnvironment(l) THEN FALSE
    ELSE LET isInNodeModules == includes(l.path, "/node_modules/")
             isInEnduranceCore == includes(l.path, "@programisto/endurance")
         IN \/ ~isInNodeModules
            \/ /\ isInNodeModules /\ isInEnduranceCore
               /\ isSymlinkOrSource(l.symlinkOrSource)
            \/ /\ isInNodeModules /\ isInEnduranceCore
               /\ isInMainProjectNodeModules(l.path)

\* No reply of the tool registry yet
NoAnswer == [kind |-> "none"]

\* The MCP server is not running: no tool is registered, none is called
McpIdle ==
    /\ tools = <<>>
    /\ resources = <<>>
    /\ disk = <<>>
    /\ calls = {}
    /\ results = {}
    /\ answer = NoAnswer
    /\ requests = 0

\* generateSwaggerSpec has not been called
NotCalled == [called |-> FALSE, apiFiles |-> <<>>]

RECURSIVE handleRedispatched(_, _, _, _, _)
\* Bug variant of handle: the fallback middleware hands the rewritten url to
\* the application again, from its first layer
handleRedispatched(idx, reqUrl, url, owner, rewrites) ==
    IF idx > Len(stack)
    THEN [url |-> reqUrl, owner |-> owner, servedBy |-> "", at |-> "",
          sub |-> "", finalUrl |-> url, rewrites |-> rewrites]
    ELSE
    LET layer == stack[idx]
        sub == strippedUrl(layer.path, url)
    IN IF ~layerMatches(layer.path, url)
       THEN handleRedispatched(idx + 1, reqUrl, url, owner, rewrites)
       ELSE IF layer.kind = "router" /\ layer.file = owner /\ sub = "/x"
       THEN [url |-> reqUrl, owner |-> owner, servedBy |-> layer.file,
             at |-> layer.path, sub |-> sub, finalUrl |-> url,
             rewrites |-> rewrites]
       ELSE IF layer.kind = "fallback"
       THEN handleRedispatched(1, reqUrl, layer.target \o sub, owner,
                               rewrites + 1)
       ELSE handleRedispatched(idx + 1, reqUrl, url, owner, rewrites)

RECURSIVE handle(_, _, _, _, _)
\* The request walks the layers from idx on.  owner is the route file that
\* defines a route for the sub-path "/x" ("" if none does).  A router that
\* does not match and the fallback middleware both call next(): the url is
\* restored to mount path + req.url and the walk goes on with the layers
\* that follow.
handle(idx, reqUrl, url, owner, rewrites) ==
    IF idx > Len(stack)
    THEN [url |-> reqUrl, owner |-> owner, servedBy |-> "", at |-> "",
          sub |-> "", finalUrl |-> url, rewrites |-> rewrites]
    ELSE
    LET layer == stack[idx]
        sub == strippedUrl(layer.path, url)
    IN IF ~layerMatches(layer.path, url)
       THEN handle(idx + 1, reqUrl, url, owner, rewrites)
       ELSE IF layer.kind = "router" /\ layer.file = owner /\ sub = "/x"
       THEN [url |-> reqUrl, owner |-> owner, servedBy |-> layer.file,
             at |-> layer.path, sub |-> sub, finalUrl |-> url,
             rewrites |-> rewrites]
       ELSE IF layer.kind = "fallback"
       THEN handle(idx + 1, reqUrl, layer.path \o (layer.target \o sub), owner,
                   rewrites + 1)
       ELSE handle(idx + 1, reqUrl, url, owner, rewrites)

-----------------------------------------------------------------------------
(* Startup *)

Init ==
    /\ fsFiles \in {S \in SUBSET FileUniverse : Cardinality(S) <= MaxFiles}
    /\ broken \in {B \in SUBSET fsFiles : faultsFit(fsFiles, B, {})}
    /\ unreadable \in {U \in SUBSET UnreadableDirs :
                          faultsFit(fsFiles, broken, U)}
    /\ pc = "modules"
    /\ moduleEntries = <<>>
    /\ work = <<>>
    /\ routesMap = <<>>
    /\ registered = <<>>
    /\ bpIdx = 1
    /\ vIdx = 1
    /\ stack = <<>>
    /\ swaggerApiFiles = <<>>
    /\ log = <<>>
    /\ imports = <<>>
    /\ resp = NoResp
    /\ run = 1
    /\ firstStack = <<>>
    /\ inFlight = <<>>
    /\ settled = <<>>
    /\ enableSwagger = TRUE
    /\ isDirectUsage = TRUE
    /\ launch = NoLaunch
    /\ mongodbHost = FALSE
    /\ swaggerCall = NotCalled
    /\ server = "off"
    /\ emitted = 0
    /\ McpIdle

fsVars == <<fsFiles, broken, unreadable>>

runVars == <<run, firstStack>>

loadVars == <<inFlight, settled>>

envVars == <<enableSwagger, isDirectUsage, launch, mongodbHost>>

lifeVars == <<swaggerCall, server, emitted>>

\* Bug variant of awaited: the loader goes on without awaiting the import
notAwaited(pending) == TRUE

\* await: the async function resumes only when the promise it awaits has
\* settled, so its next statement runs with no import of its own pending
awaited(pending) == pending = <<>>

\* loadMarketplaceModules: the discovery loop over node_modules; phase 1
\* then awaits the middlewares of every module entry.  A listing that throws
\* during discovery is caught by the outer catch, which skips both phases.
DiscoverModules ==
    /\ pc = "modules"
    /\ IF discoveryThrows
       THEN /\ log' = Append(log, "Error reading node_modules:")
            /\ moduleEntries' = <<>>
            /\ work' = <<>>
            /\ pc' = "phase2"
       ELSE /\ moduleEntries' = rootEntries(readdirSync(nodeModulesPath))
            /\ work' = middlewarePhase(moduleEntries')
            /\ pc' = "phase1"
            /\ log' = log
    /\ UNCHANGED <<fsVars, mcpVars, runVars, loadVars, envVars, lifeVars, routesMap, registered, bpIdx, vIdx, stack, swaggerApiFiles,
                   imports, resp>>

\* Phase 1 is over for every module: phase 2 walks every module again
StartContentPhase ==
    /\ pc = "phase1" /\ work = <<>> /\ awaited(inFlight)
    /\ pc' = "phase2"
    /\ work' = contentPhase(moduleEntries)
    /\ UNCHANGED <<fsVars, mcpVars, runVars, loadVars, envVars, lifeVars, moduleEntries, routesMap, registered, bpIdx, vIdx, stack,
                   swaggerApiFiles, log, imports, resp>>

\* After loadMarketplaceModules: the walk of the local project tree
StartLocalWalk ==
    /\ pc = "phase2" /\ work = <<>> /\ awaited(inFlight)
    /\ pc' = "local"
    /\ work' = localWalk
    /\ UNCHANGED <<fsVars, mcpVars, runVars, loadVars, envVars, lifeVars, moduleEntries, routesMap, registered, bpIdx, vIdx, stack,
                   swaggerApiFiles, log, imports, resp>>

\* import('file:///' + path) of a middleware, listener, consumer or cron
\* is called
ImportUnit ==
    /\ work # <<>> /\ Head(work).kind = "import" /\ awaited(inFlight)
    /\ imports' = Append(imports, [path |-> Head(work).path, kind |-> "unit",
                                   pc |-> pc])
    /\ inFlight' = Append(inFlight, Head(work))
    /\ work' = Tail(work)
    /\ UNCHANGED <<fsVars, mcpVars, runVars, envVars, lifeVars, settled, pc, moduleEntries, routesMap,
                   registered, bpIdx, vIdx, stack, swaggerApiFiles, log, resp>>

\* Bug variant of UnitSettles: no catch around the import, a rejection
\* rejects loadServer
UnitRejects ==
    /\ inFlight # <<>> /\ Head(inFlight).by # "loadRoutes"
    /\ pc' = IF importOk(Head(inFlight).path) THEN pc ELSE "rejected"
    /\ work' = IF importOk(Head(inFlight).path) THEN work ELSE <<>>
    /\ inFlight' = Tail(inFlight)
    /\ settled' = Append(settled, Head(inFlight).path)
    /\ UNCHANGED <<fsVars, mcpVars, runVars, envVars, lifeVars, moduleEntries, routesMap,
                   registered, bpIdx, vIdx, stack, swaggerApiFiles, imports,
                   resp, log>>

\* The import resolves, or rejects into the catch around it
UnitSettles ==
    /\ inFlight # <<>> /\ Head(inFlight).by # "loadRoutes"
    /\ log' = IF Head(inFlight).by = "loadMiddlewaresOnly"
              THEN loadMiddlewaresOnlyLog(log, Head(inFlight).file,
                                          Head(inFlight).path)
              ELSE processFileLog(log, Head(inFlight).path)
    /\ inFlight' = Tail(inFlight)
    /\ settled' = Append(settled, Head(inFlight).path)
    /\ UNCHANGED <<fsVars, mcpVars, runVars, envVars, lifeVars, pc, moduleEntries, work, routesMap,
                   registered, bpIdx, vIdx, stack, swaggerApiFiles, imports,
                   resp>>

\* this.app.use(express.static(folderPath))
MountStatic ==
    /\ work # <<>> /\ Head(work).kind = "static" /\ awaited(inFlight)
    /\ stack' = Append(stack, StaticLayer(Head(work).path))
    /\ work' = Tail(work)
    /\ UNCHANGED <<fsVars, mcpVars, runVars, loadVars, envVars, lifeVars, pc, moduleEntries, routesMap, registered, bpIdx, vIdx,
                   swaggerApiFiles, log, imports, resp>>

\* Bug variant of RegisterRoute: the route file is loaded as soon as the walk
\* comes across it
RegisterRouteAndLoad ==
    /\ work # <<>> /\ Head(work).kind = "route" /\ awaited(inFlight)
    /\ routesMap' = registerRoute(routesMap, Head(work).file, Head(work).path)
    /\ registered' = Append(registered, registration(Head(work).file,
                                                     Head(work).path))
    /\ imports' = Append(imports, [path |-> Head(work).path, kind |-> "route",
                                   pc |-> pc])
    /\ settled' = Append(settled, Head(work).path)
    /\ work' = Tail(work)
    /\ UNCHANGED <<fsVars, mcpVars, runVars, envVars, lifeVars, inFlight, pc, moduleEntries, bpIdx, vIdx,
                   stack, swaggerApiFiles, log, resp>>

\* processFile on a route file: registration in routesMap, no load
RegisterRoute ==
    /\ work # <<>> /\ Head(work).kind = "route" /\ awaited(inFlight)
    /\ routesMap' = registerRoute(routesMap, Head(work).file, Head(work).path)
    /\ registered' = Append(registered, registration(Head(work).file,
                                                     Head(work).path))
    /\ work' = Tail(work)
    /\ UNCHANGED <<fsVars, mcpVars, runVars, loadVars, envVars, lifeVars, pc, moduleEntries, bpIdx, vIdx, stack,
                   swaggerApiFiles, log, imports, resp>>

\* logger.error of a failed readdirSync in readModulesFolder, logger.warn of
\* a module without a usable folder
LogLine ==
    /\ work # <<>> /\ Head(work).kind = "log" /\ awaited(inFlight)
    /\ log' = Append(log, Head(work).path)
    /\ work' = Tail(work)
    /\ UNCHANGED <<fsVars, mcpVars, runVars, loadVars, envVars, lifeVars, pc, moduleEntries, routesMap, registered, bpIdx, vIdx,
                   stack, swaggerApiFiles, imports, resp>>

\* The walks are over: the mount loop starts
StartMounting ==
    /\ pc = "local" /\ work = <<>> /\ awaited(inFlight)
    /\ pc' = "mount"
    /\ bpIdx' = 1
    /\ vIdx' = 1
    /\ UNCHANGED <<fsVars, mcpVars, runVars, loadVars, envVars, lifeVars, moduleEntries, work, routesMap, registered, stack,
                   swaggerApiFiles, log, imports, resp>>

\* Bug variant of loadRoutesApiFiles: the path is pushed before the import
loadRoutesApiFilesEarly(apiFiles, filePath) == Append(apiFiles, filePath)

\* this.swaggerApiFiles after loadRoutes(basePath, filePath, version)
loadRoutesApiFiles(apiFiles, filePath) ==
    IF importOk(filePath) THEN Append(apiFiles, filePath) ELSE apiFiles

\* Bug variant of loadRoutesStack: the handler is mounted although the load threw
loadRoutesStackUnguarded(stk, basePath, filePath, version) ==
    Append(stk, RouterLayer(versionedPath(basePath, version), filePath))

\* Handler stack after loadRoutes(basePath, filePath, version)
loadRoutesStack(stk, basePath, filePath, version) ==
    IF importOk(filePath)
    THEN Append(stk, RouterLayer(versionedPath(basePath, version), filePath))
    ELSE stk

\* The mount loop calls loadRoutes for sortedVersions[index], which calls
\* import('file:///' + filePath)
ImportRoute ==
    /\ pc = "mount" /\ bpIdx <= Len(routesMap) /\ awaited(inFlight)
    /\ LET versionsMap == routesMap[bpIdx].versions
           version == sortedVersions(versionsMap)[vIdx]
           filePath == versionsGet(versionsMap, version)
       IN /\ imports' = Append(imports, [path |-> filePath, kind |-> "route",
                                         pc |-> pc])
          /\ inFlight' = Append(inFlight, ImportStep("loadRoutes", filePath, ""))
    /\ UNCHANGED <<fsVars, mcpVars, runVars, envVars, lifeVars, settled, pc, moduleEntries, work, routesMap,
                   registered, bpIdx, vIdx, stack, swaggerApiFiles, log, resp>>

\* Bug variant of MountVersion: the fallback middleware is installed only
\* when the version's route file loaded
MountVersionLoadedOnly ==
    /\ pc = "mount" /\ bpIdx <= Len(routesMap)
    /\ inFlight # <<>> /\ Head(inFlight).by = "loadRoutes"
    /\ LET basePath == routesMap[bpIdx].basePath
           versionsMap == routesMap[bpIdx].versions
           sorted == sortedVersions(versionsMap)
           version == sorted[vIdx]
           filePath == versionsGet(versionsMap, version)
           loaded == loadRoutesStack(stack, basePath, filePath,
                                     IF version = "default" THEN Null
                                     ELSE version)
       IN /\ swaggerApiFiles' = loadRoutesApiFiles(swaggerApiFiles, filePath)
          /\ log' = loadRoutesLog(log, filePath)
          /\ stack' = IF vIdx > 1 /\ importOk(filePath)
                      THEN Append(loaded,
                                  FallbackLayer(fallbackPath(basePath, version),
                                                previousPath(basePath,
                                                             sorted[vIdx - 1])))
                      ELSE loaded
          /\ IF vIdx < Len(sorted)
             THEN vIdx' = vIdx + 1 /\ bpIdx' = bpIdx
             ELSE vIdx' = 1 /\ bpIdx' = bpIdx + 1
    /\ inFlight' = Tail(inFlight)
    /\ settled' = Append(settled, Head(inFlight).path)
    /\ UNCHANGED <<fsVars, mcpVars, runVars, envVars, lifeVars, pc, moduleEntries, work, routesMap,
                   registered, imports, resp>>

\* The rest of the iteration once the import has settled: the handler is
\* mounted or the error logged, then the fallback middleware if index > 0
MountVersion ==
    /\ pc = "mount" /\ bpIdx <= Len(routesMap)
    /\ inFlight # <<>> /\ Head(inFlight).by = "loadRoutes"
    /\ LET basePath == routesMap[bpIdx].basePath
           versionsMap == routesMap[bpIdx].versions
           sorted == sortedVersions(versionsMap)
           version == sorted[vIdx]
           filePath == versionsGet(versionsMap, version)
           loaded == loadRoutesStack(stack, basePath, filePath,
                                     IF version = "default" THEN Null
                                     ELSE version)
       IN /\ swaggerApiFiles' = loadRoutesApiFiles(swaggerApiFiles, filePath)
          /\ log' = loadRoutesLog(log, filePath)
          /\ stack' = IF vIdx > 1
                      THEN Append(loaded,
                                  FallbackLayer(fallbackPath(basePath, version),
                                                previousPath(basePath,
                                                             sorted[vIdx - 1])))
                      ELSE loaded
          /\ IF vIdx < Len(sorted)
             THEN vIdx' = vIdx + 1 /\ bpIdx' = bpIdx
             ELSE vIdx' = 1 /\ bpIdx' = bpIdx + 1
    /\ inFlight' = Tail(inFlight)
    /\ settled' = Append(settled, Head(inFlight).path)
    /\ UNCHANGED <<fsVars, mcpVars, runVars, envVars, lifeVars, pc, moduleEntries, work, routesMap,
                   registered, imports, resp>>

\* Bug variant of FinishLoadServer: the route table is emptied once the
\* routes are mounted
FinishLoadServerClearing ==
    /\ pc = "mount" /\ bpIdx > Len(routesMap) /\ awaited(inFlight)
    /\ pc' = "done"
    /\ routesMap' = <<>>
    /\ swaggerCall' = IF enableSwagger
                      THEN [called |-> TRUE, apiFiles |-> swaggerApiFiles]
                      ELSE swaggerCall
    /\ stack' = stack \o loadServerTail(enableSwagger)
    /\ UNCHANGED <<fsVars, mcpVars, runVars, loadVars, envVars, server, emitted,
                   moduleEntries, work, registered, bpIdx, vIdx,
                   swaggerApiFiles, log, imports, resp>>

\* The mount loop is over: the rest of loadServer.  The favicon middleware
\* is installed; the list of loaded route files goes to generateSwaggerSpec
\* and setupSwagger installs the documentation endpoints unless SWAGGER is
\* 'false'; the /cause-error route is installed.
FinishLoadServer ==
    /\ pc = "mount" /\ bpIdx > Len(routesMap) /\ awaited(inFlight)
    /\ pc' = "done"
    /\ swaggerCall' = IF enableSwagger
                      THEN [called |-> TRUE, apiFiles |-> swaggerApiFiles]
                      ELSE swaggerCall
    /\ stack' = stack \o loadServerTail(enableSwagger)
    /\ UNCHANGED <<fsVars, mcpVars, runVars, loadVars, envVars, server, emitted,
                   moduleEntries, work, routesMap, registered, bpIdx, vIdx,
                   swaggerApiFiles, log, imports, resp>>

\* generateSwaggerSpec or setupSwagger throws: loadServer rejects, and with
\* it the promise of setupRoutes
SwaggerThrows ==
    /\ pc = "mount" /\ bpIdx > Len(routesMap) /\ awaited(inFlight)
    /\ enableSwagger
    /\ pc' = "rejected"
    /\ swaggerCall' = [called |-> TRUE, apiFiles |-> swaggerApiFiles]
    /\ stack' = Append(stack, FaviconLayer)
    /\ UNCHANGED <<fsVars, mcpVars, runVars, loadVars, envVars, server, emitted,
                   moduleEntries, work, routesMap, registered, bpIdx, vIdx,
                   swaggerApiFiles, log, imports, resp>>

\* A request for <mount path>/x, where owner is the route file that defines
\* /x ("" if no loaded route file does)
Request ==
    /\ pc = "done"
    /\ \E i \in 1..Len(stack), owner \in {swaggerApiFiles[k] :
                                            k \in 1..Len(swaggerApiFiles)}
                                         \cup {""} :
          /\ stack[i].kind \in {"router", "fallback"}
          /\ resp' = handle(1, stack[i].path \o "/x", stack[i].path \o "/x",
                            owner, 0)
    /\ UNCHANGED <<fsVars, mcpVars, runVars, loadVars, envVars, lifeVars, pc, moduleEntries, work, routesMap, registered,
                   bpIdx, vIdx, stack, swaggerApiFiles, log, imports>>

Next ==
    \/ DiscoverModules
    \/ StartContentPhase
    \/ StartLocalWalk
    \/ ImportUnit
    \/ UnitSettles
    \/ MountStatic
    \/ RegisterRoute
    \/ LogLine
    \/ StartMounting
    \/ ImportRoute
    \/ MountVersion
    \/ FinishLoadServer
    \/ Request

Spec == Init /\ [][Next]_vars

-----------------------------------------------------------------------------
(* Two starts.  A fourth specification starts the server, and then starts  *)
(* it once more, as a new process with a new application object, on the    *)
(* same file system.                                                       *)

\* The route files of the tree
RouteFiles == {f \in FileUniverse : endsWith(f, ".router.js")}

\* The first start: route files only, some of which fail to load, and
\* directories that cannot be listed
InitRerun ==
    /\ fsFiles \in {S \in SUBSET RouteFiles : Cardinality(S) <= MaxFiles}
    /\ broken \in {B \in SUBSET fsFiles : faultsFit(fsFiles, B, {})}
    /\ unreadable \in {U \in SUBSET UnreadableDirs :
                          faultsFit(fsFiles, broken, U)}
    /\ pc = "modules"
    /\ moduleEntries = <<>>
    /\ work = <<>>
    /\ routesMap = <<>>
    /\ registered = <<>>
    /\ bpIdx = 1
    /\ vIdx = 1
    /\ stack = <<>>
    /\ swaggerApiFiles = <<>>
    /\ log = <<>>
    /\ imports = <<>>
    /\ resp = NoResp
    /\ run = 1
    /\ firstStack = <<>>
    /\ inFlight = <<>>
    /\ settled = <<>>
    /\ enableSwagger = TRUE
    /\ isDirectUsage = TRUE
    /\ launch = NoLaunch
    /\ mongodbHost = FALSE
    /\ swaggerCall = NotCalled
    /\ server = "off"
    /\ emitted = 0
    /\ McpIdle

\* new EnduranceApp() in a new process: nothing of the first start is kept
Rerun ==
    /\ pc = "done" /\ run = 1
    /\ run' = 2
    /\ firstStack' = stack
    /\ pc' = "modules"
    /\ moduleEntries' = <<>>
    /\ work' = <<>>
    /\ routesMap' = <<>>
    /\ registered' = <<>>
    /\ bpIdx' = 1
    /\ vIdx' = 1
    /\ stack' = <<>>
    /\ swaggerApiFiles' = <<>>
    /\ log' = <<>>
    /\ imports' = <<>>
    /\ resp' = NoResp
    /\ inFlight' = <<>>
    /\ settled' = <<>>
    /\ swaggerCall' = NotCalled
    /\ server' = "off"
    /\ emitted' = 0
    /\ UNCHANGED <<fsVars, mcpVars, envVars>>

NextRerun ==
    \/ DiscoverModules
    \/ StartContentPhase
    \/ StartLocalWalk
    \/ RegisterRoute
    \/ LogLine
    \/ StartMounting
    \/ ImportRoute
    \/ MountVersion
    \/ FinishLoadServer
    \/ Rerun

RerunSpec == InitRerun /\ [][NextRerun]_vars

-----------------------------------------------------------------------------
(* After setupRoutes.  A fifth specification follows the constructor's     *)
(* setupRoutes().then(...) into setupDatabase and startServer, for every   *)
(* setting of SWAGGER, MONGODB_HOST and isDirectUsage, on trees that hold  *)
(* route files only.                                                       *)

\* setupErrorHandling: the 404 middleware and the error handler, in app.use
\* order
ErrorHandlers ==
    <<[kind |-> "notFound", path |-> "", file |-> "", target |-> ""],
      [kind |-> "errorHandler", path |-> "", file |-> "", target |-> ""]>>

\* Bug variant of SetupDatabase: called without waiting for setupRoutes
SetupDatabaseEarly ==
    /\ server = "off"
    /\ stack' = stack \o ErrorHandlers
                   \o (IF mongodbHost THEN <<>>
                       ELSE <<SessionLayer("MemoryStore")>>)
    /\ server' = IF mongodbHost THEN "importing"
                 ELSE IF isDirectUsage THEN "listen" ELSE "idle"
    /\ UNCHANGED <<fsVars, mcpVars, runVars, loadVars, envVars, swaggerCall, emitted,
                   pc, moduleEntries, work, routesMap, registered, bpIdx, vIdx,
                   swaggerApiFiles, log, imports, resp>>

\* Bug variant of SetupDatabase: the session middleware is installed before
\* the error handlers
SetupDatabaseSessionFirst ==
    /\ pc = "done" /\ server = "off"
    /\ stack' = (IF mongodbHost THEN <<>> ELSE <<SessionLayer("MemoryStore")>>)
                \o stack \o ErrorHandlers
    /\ server' = IF mongodbHost THEN "importing"
                 ELSE IF isDirectUsage THEN "listen" ELSE "idle"
    /\ UNCHANGED <<fsVars, mcpVars, runVars, loadVars, envVars, swaggerCall, emitted,
                   pc, moduleEntries, work, routesMap, registered, bpIdx, vIdx,
                   swaggerApiFiles, log, imports, resp>>

\* The then-callback of setupRoutes(): setupErrorHandling installs the error
\* handlers, then setupDatabase.  Without MONGODB_HOST the session middleware
\* is installed and the server is started at once if isDirectUsage; with it,
\* import('../infra/database.js') is called.
SetupDatabase ==
    /\ pc = "done" /\ server = "off"
    /\ stack' = stack \o ErrorHandlers
                   \o (IF mongodbHost THEN <<>>
                       ELSE <<SessionLayer("MemoryStore")>>)
    /\ server' = IF mongodbHost THEN "importing"
                 ELSE IF isDirectUsage THEN "listen" ELSE "idle"
    /\ UNCHANGED <<fsVars, mcpVars, runVars, loadVars, envVars, swaggerCall, emitted,
                   pc, moduleEntries, work, routesMap, registered, bpIdx, vIdx,
                   swaggerApiFiles, log, imports, resp>>

\* import('../infra/database.js') resolves: the session middleware is
\* installed with the store of the database and connect() is called
DatabaseImported ==
    /\ server = "importing"
    /\ stack' = Append(stack, SessionLayer("createStore"))
    /\ server' = "connecting"
    /\ UNCHANGED <<fsVars, mcpVars, runVars, loadVars, envVars, swaggerCall, emitted,
                   pc, moduleEntries, work, routesMap, registered, bpIdx, vIdx,
                   swaggerApiFiles, log, imports, resp>>

\* import('../infra/database.js') rejects, or createStore() throws: nothing
\* catches it, and nothing more is installed or started
DatabaseImportFails ==
    /\ server = "importing"
    /\ server' = "idle"
    /\ UNCHANGED <<fsVars, mcpVars, runVars, loadVars, envVars, swaggerCall, emitted,
                   pc, moduleEntries, work, routesMap, registered, bpIdx, vIdx,
                   stack, swaggerApiFiles, log, imports, resp>>

\* enduranceDatabase.connect() resolves with a database
ConnectSucceeds ==
    /\ server = "connecting"
    /\ server' = IF isDirectUsage THEN "listen" ELSE "idle"
    /\ UNCHANGED <<fsVars, mcpVars, runVars, loadVars, envVars, swaggerCall, emitted,
                   pc, moduleEntries, work, routesMap, registered, bpIdx, vIdx,
                   stack, swaggerApiFiles, log, imports, resp>>

\* enduranceDatabase.connect() resolves with a connection that has no db
ConnectWithoutDb ==
    /\ server = "connecting"
    /\ server' = "idle"
    /\ log' = Append(log, "[endurance-core] MongoDB connection established, "
                          \o "but no database instance found.")
    /\ UNCHANGED <<fsVars, mcpVars, runVars, loadVars, envVars, swaggerCall, emitted,
                   pc, moduleEntries, work, routesMap, registered, bpIdx, vIdx,
                   stack, swaggerApiFiles, imports, resp>>

\* enduranceDatabase.connect() rejects
ConnectFails ==
    /\ server = "connecting"
    /\ server' = "idle"
    /\ log' = Append(log, "Error connecting to MongoDB")
    /\ UNCHANGED <<fsVars, mcpVars, runVars, loadVars, envVars, swaggerCall, emitted,
                   pc, moduleEntries, work, routesMap, registered, bpIdx, vIdx,
                   stack, swaggerApiFiles, imports, resp>>

\* The callback of this.app.listen: the server listens, APP_STARTED is emitted
Listening ==
    /\ server = "listen"
    /\ server' = "started"
    /\ emitted' = emitted + 1
    /\ UNCHANGED <<fsVars, mcpVars, runVars, loadVars, envVars, swaggerCall,
                   pc, moduleEntries, work, routesMap, registered, bpIdx, vIdx,
                   stack, swaggerApiFiles, log, imports, resp>>

\* this.app.listen fails (the port is taken): the callback is never called
ListenFails ==
    /\ server = "listen"
    /\ server' = "crashed"
    /\ UNCHANGED <<fsVars, mcpVars, runVars, loadVars, envVars, swaggerCall, emitted,
                   pc, moduleEntries, work, routesMap, registered, bpIdx, vIdx,
                   stack, swaggerApiFiles, log, imports, resp>>

InitLifecycle ==
    /\ fsFiles \in {S \in SUBSET RouteFiles : Cardinality(S) <= MaxFiles}
    /\ broken \in {B \in SUBSET fsFiles : Cardinality(B) <= MaxFaults}
    /\ unreadable = {}
    /\ pc = "modules"
    /\ moduleEntries = <<>>
    /\ work = <<>>
    /\ routesMap = <<>>
    /\ registered = <<>>
    /\ bpIdx = 1
    /\ vIdx = 1
    /\ stack = <<>>
    /\ swaggerApiFiles = <<>>
    /\ log = <<>>
    /\ imports = <<>>
    /\ resp = NoResp
    /\ run = 1
    /\ firstStack = <<>>
    /\ inFlight = <<>>
    /\ settled = <<>>
    /\ enableSwagger \in BOOLEAN
    /\ isDirectUsage \in BOOLEAN
    /\ launch = NoLaunch
    /\ mongodbHost \in BOOLEAN
    /\ swaggerCall = NotCalled
    /\ server = "off"
    /\ emitted = 0
    /\ McpIdle

NextLifecycle ==
    \/ DiscoverModules
    \/ StartContentPhase
    \/ StartLocalWalk
    \/ RegisterRoute
    \/ StartMounting
    \/ ImportRoute
    \/ MountVersion
    \/ FinishLoadServer
    \/ SwaggerThrows
    \/ SetupDatabase
    \/ DatabaseImported
    \/ DatabaseImportFails
    \/ ConnectSucceeds
    \/ ConnectWithoutDb
    \/ ConnectFails
    \/ Listening
    \/ ListenFails

LifecycleSpec == InitLifecycle /\ [][NextLifecycle]_vars

-----------------------------------------------------------------------------
(* Progress.  A seventh specification runs startup, on every disk and with *)
(* every fault of the first one, up to the then-callback of setupRoutes(). *)
(* Each step is the continuation of a settled promise on the event loop,   *)
(* which runs it once it is ready: weak fairness of the steps.             *)

\* The steps of loadServer
NextLoader ==
    \/ DiscoverModules
    \/ StartContentPhase
    \/ StartLocalWalk
    \/ ImportUnit
    \/ UnitSettles
    \/ MountStatic
    \/ RegisterRoute
    \/ LogLine
    \/ StartMounting
    \/ ImportRoute
    \/ MountVersion
    \/ FinishLoadServer

NextStartup == NextLoader \/ SetupDatabase

\* loadServer has a step to take: it has neither returned nor rejected.  In
\* every reachable state this is ENABLED <<NextLoader>>_vars.
LoaderRunnable == pc \notin {"done", "rejected"}

\* Weak fairness of the loader, WF_vars(NextLoader), with its enabling
\* condition written as the state predicate LoaderRunnable
LoaderFairness == []<>(~LoaderRunnable) \/ []<><<NextLoader>>_vars

StartupSpec ==
    Init /\ [][NextStartup]_vars /\ LoaderFairness /\ WF_vars(SetupDatabase)

-----------------------------------------------------------------------------
(* Route file names.  A second specification starts the server on a local  *)
(* tree that holds one route file, named as create_router names it:        *)
(* <name>.router.js or <name>.<version>.router.js, the version being digit *)
(* groups separated by dots, with or without a leading "v".                *)

\* Most digit groups in the version of a route file name
MaxGroups == 3

RouterNames == {"users", "a"}

DigitGroups == {"0", "1", "10"}

VersionGroups == UNION {[1..n -> DigitGroups] : n \in 0..MaxGroups}

RECURSIVE joinGroups(_)
\* The digit groups separated by dots
joinGroups(groups) ==
    IF Len(groups) = 1 THEN groups[1]
    ELSE groups[1] \o "." \o joinGroups(SubSeq(groups, 2, Len(groups)))

\* The names: a router name, and a version if groups is not empty
FileNames ==
    {[name |-> n, prefix |-> p, groups |-> g] :
        n \in RouterNames, p \in {"", "v"}, g \in VersionGroups}
    \ {[name |-> n, prefix |-> "v", groups |-> <<>>] : n \in RouterNames}

\* version ? `${routerName}.${version}.router.js` : `${routerName}.router.js`
fileName(fn) ==
    IF fn.groups = <<>> THEN fn.name \o ".router.js"
    ELSE fn.name \o "." \o fn.prefix \o joinGroups(fn.groups) \o ".router.js"

\* Where the file is put: a routes folder of the local tree
fullPath(fn) == join("/app/dist/modules/shop/routes", fileName(fn))

InitNames ==
    /\ fsFiles \in {{fullPath(fn)} : fn \in FileNames}
    /\ broken = {}
    /\ unreadable = {}
    /\ pc = "modules"
    /\ moduleEntries = <<>>
    /\ work = <<>>
    /\ routesMap = <<>>
    /\ registered = <<>>
    /\ bpIdx = 1
    /\ vIdx = 1
    /\ stack = <<>>
    /\ swaggerApiFiles = <<>>
    /\ log = <<>>
    /\ imports = <<>>
    /\ resp = NoResp
    /\ run = 1
    /\ firstStack = <<>>
    /\ inFlight = <<>>
    /\ settled = <<>>
    /\ enableSwagger = TRUE
    /\ isDirectUsage = TRUE
    /\ launch = NoLaunch
    /\ mongodbHost = FALSE
    /\ swaggerCall = NotCalled
    /\ server = "off"
    /\ emitted = 0
    /\ McpIdle

\* Startup and requests with nothing but a route file on disk
NextNames ==
    \/ DiscoverModules
    \/ StartContentPhase
    \/ StartLocalWalk
    \/ RegisterRoute
    \/ StartMounting
    \/ ImportRoute
    \/ MountVersion
    \/ FinishLoadServer
    \/ Request

NameSpec == InitNames /\ [][NextNames]_vars

-----------------------------------------------------------------------------
(* Folder layout.  A third specification starts the server on a local tree *)
(* whose files sit in folders other than the ones their suffix calls for,  *)
(* and in and beneath a public folder.                                     *)

LayoutFiles ==
    {"/app/dist/modules/shop/foo.router.js",
     "/app/dist/modules/shop/listeners/foo.router.js",
     "/app/dist/modules/shop/routes/foo.router.js",
     "/app/dist/modules/shop/subroutes/foo.router.js",
     "/app/dist/modules/shop/public/index.html",
     "/app/dist/modules/shop/public/hook.listener.js",
     "/app/dist/modules/shop/public/assets/app.js",
     "/app/dist/modules/shop/public/listeners/evil.listener.js",
     "/app/dist/modules/shop/public/routes/p.router.js"}

InitLayout ==
    /\ fsFiles \in {S \in SUBSET LayoutFiles : Cardinality(S) <= MaxFiles}
    /\ broken \in {B \in SUBSET fsFiles : Cardinality(B) <= MaxFaults}
    /\ unreadable = {}
    /\ pc = "modules"
    /\ moduleEntries = <<>>
    /\ work = <<>>
    /\ routesMap = <<>>
    /\ registered = <<>>
    /\ bpIdx = 1
    /\ vIdx = 1
    /\ stack = <<>>
    /\ swaggerApiFiles = <<>>
    /\ log = <<>>
    /\ imports = <<>>
    /\ resp = NoResp
    /\ run = 1
    /\ firstStack = <<>>
    /\ inFlight = <<>>
    /\ settled = <<>>
    /\ enableSwagger = TRUE
    /\ isDirectUsage = TRUE
    /\ launch = NoLaunch
    /\ mongodbHost = FALSE
    /\ swaggerCall = NotCalled
    /\ server = "off"
    /\ emitted = 0
    /\ McpIdle

\* Startup and requests on a tree whose directories can all be listed
NextLayout ==
    \/ DiscoverModules
    \/ StartContentPhase
    \/ StartLocalWalk
    \/ ImportUnit
    \/ UnitSettles
    \/ MountStatic
    \/ RegisterRoute
    \/ StartMounting
    \/ ImportRoute
    \/ MountVersion
    \/ FinishLoadServer
    \/ Request

LayoutSpec == InitLayout /\ [][NextLayout]_vars

-----------------------------------------------------------------------------
(* Nested folders.  This specification starts the server on a local tree   *)
(* whose unit folders hold a folder of the same kind beneath them.         *)

OrderFiles ==
    {"/app/dist/modules/shop/middlewares/log.middleware.js",
     "/app/dist/modules/shop/middlewares/middlewares/deep.middleware.js",
     "/app/dist/modules/shop/listeners/mail.listener.js",
     "/app/dist/modules/shop/listeners/listeners/deep.listener.js",
     "/app/dist/modules/shop/routes/a.router.js",
     "/app/dist/modules/shop/routes/routes/a.router.js",
     "/app/dist/modules/shop/routes/listeners/hook.listener.js"}

InitOrder ==
    /\ fsFiles \in {S \in SUBSET OrderFiles : Cardinality(S) <= MaxFiles}
    /\ broken \in {B \in SUBSET fsFiles : Cardinality(B) <= MaxFaults}
    /\ unreadable = {}
    /\ pc = "modules"
    /\ moduleEntries = <<>>
    /\ work = <<>>
    /\ routesMap = <<>>
    /\ registered = <<>>
    /\ bpIdx = 1
    /\ vIdx = 1
    /\ stack = <<>>
    /\ swaggerApiFiles = <<>>
    /\ log = <<>>
    /\ imports = <<>>
    /\ resp = NoResp
    /\ run = 1
    /\ firstStack = <<>>
    /\ inFlight = <<>>
    /\ settled = <<>>
    /\ enableSwagger = TRUE
    /\ isDirectUsage = TRUE
    /\ launch = NoLaunch
    /\ mongodbHost = FALSE
    /\ swaggerCall = NotCalled
    /\ server = "off"
    /\ emitted = 0
    /\ McpIdle

\* Startup up to the end of the mount loop
NextOrder ==
    \/ DiscoverModules
    \/ StartContentPhase
    \/ StartLocalWalk
    \/ ImportUnit
    \/ UnitSettles
    \/ RegisterRoute
    \/ StartMounting
    \/ ImportRoute
    \/ MountVersion
    \/ FinishLoadServer

OrderSpec == InitOrder /\ [][NextOrder]_vars

-----------------------------------------------------------------------------
(* Overrides.  This specification starts the server on marketplace modules *)
(* whose files have counterparts under the override root: at the same      *)
(* relative path, one folder higher, and files that only the override      *)
(* root holds.                                                             *)

OverrideFiles ==
    {"/app/node_modules/edrm-a/dist/listeners/order.listener.js",
     "/app/modules/edrm-a/listeners/order.listener.js",
     "/app/modules/edrm-a/listeners/extra.listener.js",
     "/app/node_modules/edrm-b/crons/crons/deep.cron.js",
     "/app/modules/edrm-b/crons/crons/deep.cron.js",
     "/app/modules/edrm-b/crons/deep.cron.js",
     "/app/node_modules/edrm-b/middlewares/acl.middleware.js",
     "/app/modules/edrm-b/middlewares/acl.middleware.js",
     "/app/node_modules/edrm-b/routes/b.3.router.js",
     "/app/modules/edrm-b/routes/b.3.router.js",
     "/app/node_modules/edrm-b/extras",
     "/app/modules/edrm-b/extras/listeners/extra.listener.js"}

InitOverride ==
    /\ fsFiles \in {S \in SUBSET OverrideFiles : Cardinality(S) <= MaxFiles}
    /\ broken = {}
    /\ unreadable = {}
    /\ pc = "modules"
    /\ moduleEntries = <<>>
    /\ work = <<>>
    /\ routesMap = <<>>
    /\ registered = <<>>
    /\ bpIdx = 1
    /\ vIdx = 1
    /\ stack = <<>>
    /\ swaggerApiFiles = <<>>
    /\ log = <<>>
    /\ imports = <<>>
    /\ resp = NoResp
    /\ run = 1
    /\ firstStack = <<>>
    /\ inFlight = <<>>
    /\ settled = <<>>
    /\ enableSwagger = TRUE
    /\ isDirectUsage = TRUE
    /\ launch = NoLaunch
    /\ mongodbHost = FALSE
    /\ swaggerCall = NotCalled
    /\ server = "off"
    /\ emitted = 0
    /\ McpIdle

OverrideSpec == InitOverride /\ [][NextOrder]_vars

-----------------------------------------------------------------------------
(* Discovery.  This specification starts the server with regular files     *)
(* that carry the module prefix next to the module directories, and with   *)
(* units in several modules.                                               *)

DiscoveryFiles ==
    {"/app/node_modules/edrm-notes.txt",
     "/app/node_modules/@org/edrm-readme.md",
     "/app/node_modules/@org/edrm-c/routes/c.router.js",
     "/app/node_modules/edrm-a/dist/middlewares/auth.middleware.js",
     "/app/node_modules/edrm-a/dist/listeners/order.listener.js",
     "/app/node_modules/edrm-b/middlewares/acl.middleware.js",
     "/app/node_modules/edrm-b/crons/tick.cron.js"}

InitDiscovery ==
    /\ fsFiles \in {S \in SUBSET DiscoveryFiles : Cardinality(S) <= MaxFiles}
    /\ broken = {}
    /\ unreadable \in {U \in SUBSET {"/app/node_modules/@org"} :
                          faultsFit(fsFiles, {}, U)}
    /\ pc = "modules"
    /\ moduleEntries = <<>>
    /\ work = <<>>
    /\ routesMap = <<>>
    /\ registered = <<>>
    /\ bpIdx = 1
    /\ vIdx = 1
    /\ stack = <<>>
    /\ swaggerApiFiles = <<>>
    /\ log = <<>>
    /\ imports = <<>>
    /\ resp = NoResp
    /\ run = 1
    /\ firstStack = <<>>
    /\ inFlight = <<>>
    /\ settled = <<>>
    /\ enableSwagger = TRUE
    /\ isDirectUsage = TRUE
    /\ launch = NoLaunch
    /\ mongodbHost = FALSE
    /\ swaggerCall = NotCalled
    /\ server = "off"
    /\ emitted = 0
    /\ McpIdle

DiscoverySpec == InitDiscovery /\ [][NextOrder]_vars

-----------------------------------------------------------------------------
(* Usage.  This specification constructs the application from a copy of    *)
(* the package at each of several places, under each setting of            *)
(* ENDURANCE_DIRECT_USAGE and of the test environment, and runs startup.   *)

\* fileURLToPath(import.meta.url), normalised, of the running copy
InstancePaths ==
    {"/app/dist/internal/app.js",
     "/app/node_modules/@programisto/endurance/dist/internal/app.js",
     "/app/node_modules/edrm-a/node_modules/@programisto/endurance/dist/internal/app.js",
     "/app/node_modules/@org/edrm-c/node_modules/@programisto/endurance/dist/internal/app.js",
     "/app/node_modules/@programisto/edrm-x/node_modules/@programisto/endurance/dist/internal/app.js"}

Launches ==
    [path : InstancePaths,
     directUsageEnv : {"unset", "true", "false"},
     testEnv : BOOLEAN,
     symlinkOrSource : SymlinkOrSourceCases]

InitUsage ==
    /\ fsFiles \in {S \in SUBSET RouteFiles : Cardinality(S) <= 1}
    /\ broken = {}
    /\ unreadable = {}
    /\ pc = "modules"
    /\ moduleEntries = <<>>
    /\ work = <<>>
    /\ routesMap = <<>>
    /\ registered = <<>>
    /\ bpIdx = 1
    /\ vIdx = 1
    /\ stack = <<>>
    /\ swaggerApiFiles = <<>>
    /\ log = <<>>
    /\ imports = <<>>
    /\ resp = NoResp
    /\ run = 1
    /\ firstStack = <<>>
    /\ inFlight = <<>>
    /\ settled = <<>>
    /\ enableSwagger \in BOOLEAN
    /\ launch \in Launches
    /\ isDirectUsage = directUsage(launch)
    /\ mongodbHost \in BOOLEAN
    /\ swaggerCall = NotCalled
    /\ server = "off"
    /\ emitted = 0
    /\ McpIdle

UsageSpec == InitUsage /\ [][NextLifecycle]_vars

-----------------------------------------------------------------------------
(* Marketplace modules.  A sixth specification starts the server on a tree  *)
(* whose files sit in and around the content roots and override roots of   *)
(* the modules: inside and outside a module's dist folder, under the        *)
(* override root named with and without the namespace segment, and as       *)
(* regular files where a module or a dist directory could be.              *)

ModuleFiles ==
    {"/app/node_modules/edrm-a/dist/middlewares/auth.middleware.js",
     "/app/node_modules/edrm-a/dist/listeners/order.listener.js",
     "/app/node_modules/edrm-a/middlewares/root.middleware.js",
     "/app/node_modules/edrm-b/middlewares/acl.middleware.js",
     "/app/node_modules/edrm-b/crons/tick.cron.js",
     "/app/node_modules/edrm-b/dist",
     "/app/node_modules/@org/edrm-c/routes/c.router.js",
     "/app/modules/@org/edrm-c/routes/c.router.js",
     "/app/modules/edrm-c/routes/c.router.js",
     "/app/modules/edrm-a/middlewares/auth.middleware.js",
     "/app/modules/edrm-a/dist/middlewares/auth.middleware.js"}

InitModules ==
    /\ fsFiles \in {S \in SUBSET ModuleFiles : Cardinality(S) <= MaxFiles}
    /\ broken \in {B \in SUBSET fsFiles : faultsFit(fsFiles, B, {})}
    /\ unreadable \in {U \in SUBSET UnreadableDirs :
                          faultsFit(fsFiles, broken, U)}
    /\ pc = "modules"
    /\ moduleEntries = <<>>
    /\ work = <<>>
    /\ routesMap = <<>>
    /\ registered = <<>>
    /\ bpIdx = 1
    /\ vIdx = 1
    /\ stack = <<>>
    /\ swaggerApiFiles = <<>>
    /\ log = <<>>
    /\ imports = <<>>
    /\ resp = NoResp
    /\ run = 1
    /\ firstStack = <<>>
    /\ inFlight = <<>>
    /\ settled = <<>>
    /\ enableSwagger = TRUE
    /\ isDirectUsage = TRUE
    /\ launch = NoLaunch
    /\ mongodbHost = FALSE
    /\ swaggerCall = NotCalled
    /\ server = "off"
    /\ emitted = 0
    /\ McpIdle

\* Startup, without requests
NextModules ==
    \/ DiscoverModules
    \/ StartContentPhase
    \/ StartLocalWalk
    \/ ImportUnit
    \/ UnitSettles
    \/ RegisterRoute
    \/ LogLine
    \/ StartMounting
    \/ ImportRoute
    \/ MountVersion
    \/ FinishLoadServer

ModuleSpec == InitModules /\ [][NextModules]_vars

-----------------------------------------------------------------------------
(* The MCP server (mcp/server.ts) and its tools (mcp/tools).  An eighth     *)
(* specification receives tool requests.  Every handler is an async         *)
(* function: it runs up to its next await, and the handlers of requests     *)
(* that arrive meanwhile run in between.  The project disk the tools write  *)
(* to maps each path to the content of the file, to Directory, or to Absent. *)

\* Bound: MCP requests received
MaxCalls == 2

appVars == <<fsVars, runVars, loadVars, envVars, lifeVars, pc, moduleEntries,
             work, routesMap, registered, bpIdx, vIdx, stack, swaggerApiFiles,
             log, imports, resp>>

Absent == "<absent>"

Directory == "<directory>"

\* Content of a file that is on the project disk before any tool is called
Old == "<old>"

\* get(name) of an unknown tool
Undefined == [undefined |-> TRUE]

UpperCase == "ABCDEFGHIJKLMNOPQRSTUVWXYZ"

LowerCase == "abcdefghijklmnopqrstuvwxyz"

RECURSIVE toLowerCase(_)
\* String.prototype.toLowerCase
toLowerCase(s) ==
    IF s = "" THEN ""
    ELSE LET c == Char(s, 1)
             up == {i \in 1..Len(UpperCase) : Char(UpperCase, i) = c}
         IN (IF up = {} THEN c ELSE Char(LowerCase, CHOOSE i \in up : TRUE))
            \o toLowerCase(SubSeq(s, 2, Len(s)))

\* path.dirname
dirname(p) ==
    LET slashes == {i \in 1..Len(p) : Char(p, i) = "/"}
        last == CHOOSE i \in slashes : \A j \in slashes : j <= i
    IN IF slashes = {} THEN "." ELSE SubSeq(p, 1, last - 1)

\* d is p or a directory above p
isAbove(d, p) == d = p \/ startsWith(p, d \o "/")

\* The awaited file-system calls of a handler, in order
PathExists(p) == [op |-> "pathExists", path |-> p, content |-> ""]

EnsureDir(p) == [op |-> "ensureDir", path |-> p, content |-> ""]

WriteFile(p, content) == [op |-> "writeFile", path |-> p, content |-> content]

\* request.params.arguments ("" for an argument that is not given)
Args(name, path, version, extra) ==
    [name |-> name, path |-> path, version |-> version, extra |-> extra]

\* args.path || default, under process.cwd()
underCwd(argPath, default) ==
    join(Cwd, IF argPath # "" THEN argPath ELSE default)

\* create_router: {name}.router.js or {name}.{version}.router.js
createRouterTool(args) ==
    LET targetName == IF args.version # ""
                    THEN args.name \o "." \o args.version \o ".router.js"
                    ELSE args.name \o ".router.js"
        targetPath == join(underCwd(args.path, "src/routes"), targetName)
    IN <<PathExists(targetPath), EnsureDir(dirname(targetPath)),
         WriteFile(targetPath, "router " \o args.name)>>

\* create_module: extra holds the flags the request gives; createRoutes is on
\* unless given as false, the other three are on only when given as true
createModuleTool(args) ==
    LET moduleFolder == join(underCwd(args.path, "src/modules"), args.name)
        createRoutes == ~includes(args.extra, "createRoutes:false")
        createListeners == includes(args.extra, "createListeners:true")
        createConsumers == includes(args.extra, "createConsumers:true")
        createCrons == includes(args.extra, "createCrons:true")
        routesPath == join(moduleFolder, "routes")
    IN <<PathExists(moduleFolder)>>
       \o (IF createRoutes
           THEN <<EnsureDir(routesPath),
                  WriteFile(join(routesPath, args.name \o ".router.js"),
                            "module " \o args.name)>>
           ELSE <<>>)
       \o (IF createListeners
           THEN <<EnsureDir(join(moduleFolder, "listeners"))>> ELSE <<>>)
       \o (IF createConsumers
           THEN <<EnsureDir(join(moduleFolder, "consumers"))>> ELSE <<>>)
       \o (IF createCrons
           THEN <<EnsureDir(join(moduleFolder, "crons"))>> ELSE <<>>)

\* create_listener: extra is eventName
createListenerTool(args) ==
    LET targetPath == join(underCwd(args.path, "src/listeners"),
                         args.name \o ".listener.js")
    IN <<PathExists(targetPath), EnsureDir(dirname(targetPath)),
         WriteFile(targetPath, "listener " \o args.extra)>>

\* create_consumer: extra is type
createConsumerTool(args) ==
    LET targetPath == join(underCwd(args.path, "src/consumers"),
                         args.name \o ".consumer.js")
    IN <<PathExists(targetPath), EnsureDir(dirname(targetPath)),
         WriteFile(targetPath, "consumer " \o args.extra)>>

\* create_cron: extra is schedule
createCronTool(args) ==
    LET targetPath == join(underCwd(args.path, "src/crons"),
                         args.name \o ".cron.js")
    IN <<PathExists(targetPath), EnsureDir(dirname(targetPath)),
         WriteFile(targetPath, "cron " \o args.name \o " " \o args.extra)>>

\* create_schema: the file name is the schema name in lower case
createSchemaTool(args) ==
    LET targetPath == join(underCwd(args.path, "src/schemas"),
                         toLowerCase(args.name) \o ".schema.ts")
    IN <<PathExists(targetPath), EnsureDir(dirname(targetPath)),
         WriteFile(targetPath, "schema " \o args.name)>>

\* create_auth: the directory is ensured before the file is looked for
createAuthTool(args) ==
    LET authClassName == IF endsWith(args.name, "Auth") THEN args.name
                         ELSE args.name \o "Auth"
        authFilePath == join(underCwd(args.path, "src/auth"),
                             toLowerCase(authClassName) \o ".ts")
    IN <<EnsureDir(underCwd(args.path, "src/auth")), PathExists(authFilePath),
         WriteFile(authFilePath, "auth " \o authClassName)>>

\* list_events and list_env_vars read the project and write nothing
listEventsTool(args) == <<>>

listEnvVarsTool(args) == <<>>

ToolEntry(name) == [name |-> name, handler |-> name \o ".handler"]

\* registerTools: the tools it creates, in registration order, one short
createdToolsShort ==
    <<ToolEntry("create_router"), ToolEntry("create_schema"),
      ToolEntry("create_module"), ToolEntry("create_listener"),
      ToolEntry("create_consumer"), ToolEntry("create_cron"),
      ToolEntry("list_events"), ToolEntry("list_env_vars")>>

\* registerTools: the tools it creates, in registration order
createdTools ==
    <<ToolEntry("create_router"), ToolEntry("create_schema"),
      ToolEntry("create_module"), ToolEntry("create_listener"),
      ToolEntry("create_consumer"), ToolEntry("create_cron"),
      ToolEntry("create_auth"), ToolEntry("list_events"),
      ToolEntry("list_env_vars")>>

\* tools.set(tool.name, tool)
registerTool(map, tool) ==
    IF \E i \in 1..Len(map) : map[i].name = tool.name
    THEN [i \in 1..Len(map) |-> IF map[i].name = tool.name THEN tool ELSE map[i]]
    ELSE Append(map, tool)

RECURSIVE registerAll(_, _)
registerAll(map, list) ==
    IF list = <<>> THEN map
    ELSE registerAll(registerTool(map, Head(list)), Tail(list))

\* The Map tools after a call of registerTools()
registerTools(map) ==
    IF Len(map) = 0 THEN registerAll(map, createdTools) ELSE map

\* list(): every tool without its handler
list(map) == [i \in 1..Len(map) |-> [name |-> map[i].name]]

\* get(name) that answers an unknown name with the first tool
getOrFirst(map, name) ==
    IF \E i \in 1..Len(map) : map[i].name = name
    THEN [handler |-> map[CHOOSE i \in 1..Len(map) : map[i].name = name].handler]
    ELSE [handler |-> map[1].handler]

\* get(name)
get(map, name) ==
    IF \E i \in 1..Len(map) : map[i].name = name
    THEN [handler |-> map[CHOOSE i \in 1..Len(map) : map[i].name = name].handler]
    ELSE Undefined

\* tool.handler(request.params.arguments): the handler's awaited steps
handlerSteps(req) ==
    CASE req.name = "create_router" -> createRouterTool(req.arguments)
      [] req.name = "create_schema" -> createSchemaTool(req.arguments)
      [] req.name = "create_module" -> createModuleTool(req.arguments)
      [] req.name = "create_listener" -> createListenerTool(req.arguments)
      [] req.name = "create_consumer" -> createConsumerTool(req.arguments)
      [] req.name = "create_cron" -> createCronTool(req.arguments)
      [] req.name = "create_auth" -> createAuthTool(req.arguments)
      [] req.name = "list_events" -> listEventsTool(req.arguments)
      [] req.name = "list_env_vars" -> listEnvVarsTool(req.arguments)
      [] OTHER -> <<>>

ToolRequest(name, arguments) == [name |-> name, arguments |-> arguments]

\* The requests a client sends
ToolRequests ==
    { ToolRequest("create_router", Args("a", "", "1", "")),
      ToolRequest("create_router", Args("a.1", "", "", "")),
      ToolRequest("create_module", Args("a", "", "", "")),
      ToolRequest("create_listener", Args("a", "", "", "e1")),
      ToolRequest("create_listener", Args("a", "", "", "e2")),
      ToolRequest("create_consumer", Args("a", "", "", "kafka")),
      ToolRequest("create_cron", Args("a", "", "", "0 * * * *")),
      ToolRequest("create_schema", Args("User", "", "", "")),
      ToolRequest("create_auth", Args("a", "", "", "")),
      ToolRequest("list_events", Args("", "", "", "")),
      ToolRequest("list_env_vars", Args("", "", "", "")),
      ToolRequest("drop_all", Args("", "", "", "")) }

\* create_module requests for one module, one per combination of the flags
ModuleRequests ==
    { ToolRequest("create_module", Args("a", "", "", r \o l \o c \o k)) :
        r \in {"", "createRoutes:true,", "createRoutes:false,"},
        l \in {"", "createListeners:true,"},
        c \in {"", "createConsumers:true,"},
        k \in {"", "createCrons:true,"} }

\* The path a handler looks for before it writes ("" if it looks for none)
targetOf(steps) ==
    LET checks == SelectSeq(steps, LAMBDA st : st.op = "pathExists")
    IN IF checks = <<>> THEN "" ELSE checks[1].path

\* Every path the tools look for, create or write
ToolPaths ==
    UNION {{handlerSteps(r)[i].path : i \in 1..Len(handlerSteps(r))} :
              r \in ToolRequests \cup ModuleRequests}

\* The paths the tools write files to
ToolFiles ==
    UNION {{handlerSteps(r)[i].path :
               i \in {j \in 1..Len(handlerSteps(r)) :
                         handlerSteps(r)[j].op = "writeFile"}} :
              r \in ToolRequests \cup ModuleRequests}

\* The project disk on which the paths of S exist
DiskWith(S) ==
    [p \in ToolPaths |->
        IF p \in S /\ p \in ToolFiles THEN Old
        ELSE IF \E q \in S : isAbove(p, q) THEN Directory
        ELSE Absent]

\* fs.pathExists
pathExists(dsk, p) == dsk[p] # Absent

\* fs.ensureDir throws: the path or a folder above it is a regular file
ensureDirThrows(dsk, d) ==
    \E q \in DOMAIN dsk : isAbove(q, d) /\ dsk[q] \notin {Absent, Directory}

\* fs.ensureDir: the folder and the missing folders above it are created
ensureDir(dsk, d) ==
    [q \in DOMAIN dsk |-> IF isAbove(q, d) THEN Directory ELSE dsk[q]]

\* fs.writeFile throws: the path is a directory, or its folder is missing
writeFileThrows(dsk, p) ==
    \/ dsk[p] = Directory
    \/ dirname(p) \in DOMAIN dsk /\ dsk[dirname(p)] # Directory

\* fs.writeFile: the file is created, or truncated and written
writeFile(dsk, p, content) == [dsk EXCEPT ![p] = content]

InitTools ==
    /\ fsFiles = {}
    /\ broken = {}
    /\ unreadable = {}
    /\ pc = "modules"
    /\ moduleEntries = <<>>
    /\ work = <<>>
    /\ routesMap = <<>>
    /\ registered = <<>>
    /\ bpIdx = 1
    /\ vIdx = 1
    /\ stack = <<>>
    /\ swaggerApiFiles = <<>>
    /\ log = <<>>
    /\ imports = <<>>
    /\ resp = NoResp
    /\ run = 1
    /\ firstStack = <<>>
    /\ inFlight = <<>>
    /\ settled = <<>>
    /\ enableSwagger = TRUE
    /\ isDirectUsage = TRUE
    /\ launch = NoLaunch
    /\ mongodbHost = FALSE
    /\ swaggerCall = NotCalled
    /\ server = "off"
    /\ emitted = 0
    /\ tools = <<>>
    /\ resources = <<>>
    /\ disk \in {DiskWith(S) : S \in {T \in SUBSET ToolPaths : Cardinality(T) <= 1}}
    /\ calls = {}
    /\ results = {}
    /\ answer = NoAnswer
    /\ requests = 0

\* The handler of ListToolsRequestSchema: registerTools().list()
ListTools ==
    /\ requests < MaxCalls
    /\ requests' = requests + 1
    /\ tools' = registerTools(tools)
    /\ answer' = [kind |-> "list", tools |-> list(tools')]
    /\ UNCHANGED <<appVars, resources, disk, calls, results>>

\* What a handler returns
Result(call, isError) ==
    [id |-> call.id, name |-> call.name, target |-> call.target,
     existed |-> call.existed, old |-> call.old, replaced |-> call.replaced,
     isError |-> isError]

\* The handler of CallToolRequestSchema: registerTools().get(name); an unknown
\* name throws, otherwise the tool's handler is called and runs up to its
\* first await (it returns at once if it has none)
CallToolOf(Requests) ==
    /\ requests < MaxCalls
    /\ requests' = requests + 1
    /\ tools' = registerTools(tools)
    /\ \E req \in Requests :
          LET steps == handlerSteps(req)
              target == targetOf(steps)
              call == [id |-> requests + 1, name |-> req.name,
                       target |-> target,
                       existed |-> target # "" /\ pathExists(disk, target),
                       old |-> IF target # "" THEN disk[target] ELSE Absent,
                       replaced |-> Absent, steps |-> steps]
          IN /\ answer' = [kind |-> "get", name |-> req.name,
                           tool |-> get(tools', req.name)]
             /\ IF get(tools', req.name) = Undefined
                THEN UNCHANGED <<calls, results>>
                ELSE IF steps = <<>>
                THEN /\ results' = results \cup {Result(call, FALSE)}
                     /\ calls' = calls
                ELSE /\ calls' = calls \cup {call}
                     /\ results' = results
    /\ UNCHANGED <<appVars, resources, disk>>

CallTool == CallToolOf(ToolRequests)

\* A handler resumes after an await: the file-system call it awaited takes
\* effect, and the handler returns (an error from its catch, a result after
\* its last step) or runs up to the next await
ToolStep ==
    \E call \in calls :
        LET st == Head(call.steps)
            throws == \/ st.op = "ensureDir" /\ ensureDirThrows(disk, st.path)
                      \/ st.op = "writeFile" /\ writeFileThrows(disk, st.path)
            exists == st.op = "pathExists" /\ pathExists(disk, st.path)
            after == [call EXCEPT
                        !.steps = Tail(call.steps),
                        !.replaced = IF /\ st.op = "writeFile" /\ ~throws
                                        /\ disk[st.path] # Absent
                                     THEN disk[st.path] ELSE call.replaced]
        IN /\ disk' = IF throws THEN disk
                      ELSE IF st.op = "ensureDir" THEN ensureDir(disk, st.path)
                      ELSE IF st.op = "writeFile"
                      THEN writeFile(disk, st.path, st.content)
                      ELSE disk
           /\ IF throws \/ exists
              THEN /\ results' = results \cup {Result(call, TRUE)}
                   /\ calls' = calls \ {call}
              ELSE IF after.steps = <<>>
              THEN /\ results' = results \cup {Result(after, FALSE)}
                   /\ calls' = calls \ {call}
              ELSE /\ calls' = (calls \ {call}) \cup {after}
                   /\ results' = results
           /\ UNCHANGED <<appVars, tools, resources, answer, requests>>

NextTools == ListTools \/ CallTool \/ ToolStep

ToolSpec == InitTools /\ [][NextTools]_vars

\* The server started in a project that has none of the tools' paths yet
InitRegistry == InitTools /\ disk = DiskWith({})

RegistrySpec == InitRegistry /\ [][NextTools]_vars

-----------------------------------------------------------------------------
(* The resources of the MCP server (mcp/resources/index.ts).  A resource    *)
(* handler returns its text and touches nothing.  A further specification   *)
(* receives tool requests and resource requests in any order.               *)

ResourceEntry(uri) == [uri |-> uri, handler |-> uri \o ".handler"]

\* registerResources: the resources it creates, in registration order
createdResources ==
    <<ResourceEntry("endurance://naming-conventions"),
      ResourceEntry("endurance://folder-structure"),
      ResourceEntry("endurance://router-documentation"),
      ResourceEntry("endurance://schema-documentation"),
      ResourceEntry("endurance://auth-documentation"),
      ResourceEntry("endurance://code-standards"),
      ResourceEntry("endurance://patterns")>>

\* resources.set(resource.uri, resource)
registerResource(map, resource) ==
    IF \E i \in 1..Len(map) : map[i].uri = resource.uri
    THEN [i \in 1..Len(map) |->
             IF map[i].uri = resource.uri THEN resource ELSE map[i]]
    ELSE Append(map, resource)

RECURSIVE registerEach(_, _)
registerEach(map, created) ==
    IF created = <<>> THEN map
    ELSE registerEach(registerResource(map, Head(created)), Tail(created))

\* The Map resources after a call of registerResources()
registerResources(map) ==
    IF Len(map) = 0 THEN registerEach(map, createdResources) ELSE map

\* registerResources().list(): the resources without their handler
listResources(map) == [i \in 1..Len(map) |-> [uri |-> map[i].uri]]

\* registerResources().get(uri)
getResource(map, uri) ==
    IF \E i \in 1..Len(map) : map[i].uri = uri
    THEN [handler |-> map[CHOOSE i \in 1..Len(map) : map[i].uri = uri].handler]
    ELSE Undefined

\* The URIs a client asks for: two that are registered, one that is not
ResourceRequests ==
    {"endurance://naming-conventions", "endurance://patterns",
     "endurance://secrets"}

\* The handler of ListResourcesRequestSchema: registerResources().list()
ListResources ==
    /\ requests < MaxCalls
    /\ requests' = requests + 1
    /\ resources' = registerResources(resources)
    /\ answer' = [kind |-> "listResources", tools |-> listResources(resources')]
    /\ UNCHANGED <<appVars, tools, disk, calls, results>>

\* The handler of ReadResourceRequestSchema: registerResources().get(uri); an
\* unknown URI throws, otherwise the resource's handler is called and returns
ReadResource ==
    /\ requests < MaxCalls
    /\ requests' = requests + 1
    /\ resources' = registerResources(resources)
    /\ \E uri \in ResourceRequests :
          LET resource == getResource(resources', uri)
              call == [id |-> requests + 1, name |-> uri, target |-> "",
                       existed |-> FALSE, old |-> Absent, replaced |-> Absent,
                       steps |-> <<>>]
          IN /\ answer' = [kind |-> "read", name |-> uri, tool |-> resource]
             /\ results' = IF resource = Undefined THEN results
                           ELSE results \cup {Result(call, FALSE)}
    /\ UNCHANGED <<appVars, tools, disk, calls>>

NextServer ==
    ListTools \/ CallTool \/ ToolStep \/ ListResources \/ ReadResource

ServerSpec == InitRegistry /\ [][NextServer]_vars

\* A specification of create_module alone: the client asks for one module
\* with every combination of the flags, on a project without modules
CallCreateModule == CallToolOf(ModuleRequests)

NextModuleTool == CallCreateModule \/ ToolStep

ModuleToolSpec == InitRegistry /\ [][NextModuleTool]_vars

-----------------------------------------------------------------------------
(* Facts about the directory tree, stated file by file: what each file of  *)
(* a module content root or of the local project tree is by the naming     *)
(* convention, where it comes from, and the path of its local override.    *)

Unit(path, kind, origin, override) ==
    [path |-> path, kind |-> kind, origin |-> origin, override |-> override]

Units ==
    { Unit("/app/node_modules/@org/edrm-c/routes/c.router.js", "route",
           "module", ""),
      Unit("/app/node_modules/edrm-a/dist/listeners/order.listener.js",
           "listener", "module", "/app/modules/edrm-a/listeners/order.listener.js"),
      Unit("/app/node_modules/edrm-a/dist/middlewares/auth.middleware.js",
           "middleware", "module",
           "/app/modules/edrm-a/middlewares/auth.middleware.js"),
      Unit("/app/node_modules/edrm-a/dist/public/index.html", "static",
           "module", ""),
      Unit("/app/node_modules/edrm-a/dist/routes/a.10.router.js", "route",
           "module", ""),
      Unit("/app/node_modules/edrm-a/dist/routes/a.2.router.js", "route",
           "module", "/app/modules/edrm-a/routes/a.2.router.js"),
      Unit("/app/node_modules/edrm-b/crons/tick.cron.js", "cron", "module", ""),
      Unit("/app/node_modules/edrm-b/middlewares/acl.middleware.js",
           "middleware", "module", ""),
      Unit("/app/node_modules/edrm-b/routes/b.3.router.js", "route", "module",
           ""),
      Unit("/app/dist/modules/shop/listeners/mail.listener.js", "listener",
           "local", ""),
      Unit("/app/dist/modules/shop/middlewares/log.middleware.js",
           "middleware", "local", ""),
      Unit("/app/dist/modules/shop/routes/a.2.router.js", "route", "local", ""),
      Unit("/app/dist/modules/shop/routes/a.router.js", "route", "local", ""),
      Unit("/app/dist/modules/shop/routes/b.router.js", "route", "local", "") }

\* The file is below a directory whose listing fails
UnderUnreadable(path) ==
    \E d \in unreadable : startsWith(path, d \o "/")

\* The walkers come across the unit: it is on disk, no directory above it
\* is unreadable and, for a module's unit, module discovery did not fail
Discovered(u) ==
    /\ u.path \in fsFiles
    /\ ~UnderUnreadable(u.path)
    /\ u.origin = "module" => "/app/node_modules/@org" \notin unreadable

\* The physical file that supplies the unit's content
Resolved(u) ==
    IF u.override # "" /\ u.override \in fsFiles THEN u.override ELSE u.path

ImportedUnits ==
    {imports[i].path : i \in {j \in 1..Len(imports) : imports[j].kind = "unit"}}

ImportedPaths == {imports[i].path : i \in 1..Len(imports)}

RegisteredPaths == {registered[i].filePath : i \in 1..Len(registered)}

MountedFiles ==
    {stack[i].file : i \in {j \in 1..Len(stack) : stack[j].kind = "router"}}

RouteLoadBegun == \E i \in 1..Len(imports) : imports[i].kind = "route"

\* C1: once the load of any route file has begun, every middleware unit
\* discovered in a marketplace module or in the local project tree has
\* already had its (override-resolved) file imported.
C1_MiddlewaresBeforeRoutes ==
    RouteLoadBegun =>
        \A u \in Units :
            u.kind = "middleware" /\ Discovered(u) => Resolved(u) \in ImportedUnits

\* A route load has begun after a module middleware and a local middleware
\* were discovered
C1_Witness ==
    /\ RouteLoadBegun
    /\ \E u \in Units : u.kind = "middleware" /\ u.origin = "module" /\ Discovered(u)
    /\ \E u \in Units : u.kind = "middleware" /\ u.origin = "local" /\ Discovered(u)

\* The unit whose override is on disk was loaded (registered, for a route)
\* from the override, in the phase that handles its kind
LoadedFromOverride(u) ==
    CASE u.kind = "middleware" ->
            \E i \in 1..Len(imports) :
                imports[i] = [path |-> u.override, kind |-> "unit", pc |-> "phase1"]
      [] u.kind = "route" ->
            \E i \in 1..Len(registered) : registered[i].filePath = u.override
      [] OTHER ->
            \E i \in 1..Len(imports) :
                imports[i] = [path |-> u.override, kind |-> "unit", pc |-> "phase2"]

\* The registration of the file is the last one made for its base path and
\* version
LastRegistration(filePath) ==
    \E i \in 1..Len(registered) :
        /\ registered[i].filePath = filePath
        /\ \A j \in (i + 1)..Len(registered) :
              ~(/\ registered[j].basePath = registered[i].basePath
                /\ registered[j].version = registered[i].version)

\* C2: for every classified file of a module content root whose override
\* exists at the same relative path under the module's override root, the
\* module's own file is never imported, registered or mounted; the override
\* is what is imported in the middleware phase (middlewares) and in the
\* content phase (listeners, consumers, crons), and what is registered for a
\* route and, unless a later registration replaces it, mounted.
C2_OverrideWins ==
    \A u \in Units :
        (u.override # "" /\ u.override \in fsFiles) =>
            /\ u.path \notin ImportedPaths
            /\ u.path \notin RegisteredPaths
            /\ u.path \notin MountedFiles
            /\ (Discovered(u) /\ pc \in {"local", "mount", "done"})
                  => LoadedFromOverride(u)
            /\ (/\ Discovered(u) /\ pc = "done" /\ u.kind = "route"
                /\ u.override \notin broken /\ LastRegistration(u.override))
                  => u.override \in MountedFiles

\* Startup is over and a module route file with an override on disk was
\* mounted from the override
C2_Witness ==
    /\ pc = "done"
    /\ \E u \in Units :
          /\ u.kind = "route" /\ Discovered(u)
          /\ u.override # "" /\ u.override \in fsFiles
          /\ u.override \in MountedFiles

\* A listener, consumer or cron unit has been imported or a static folder
\* has been mounted
NonMiddlewareTouched ==
    \/ \E i \in 1..Len(stack) : stack[i].kind = "static"
    \/ \E u \in Units :
          /\ u.kind \in {"listener", "consumer", "cron"}
          /\ Resolved(u) \in ImportedUnits

-----------------------------------------------------------------------------
(* Facts about the route files of the tree: base path, version, rank of    *)
(* the version in mount order (default first, then by number) and mount    *)
(* path.                                                                   *)

RouteFact(basePath, version, rank, mount) ==
    [basePath |-> basePath, version |-> version, rank |-> rank, mount |-> mount]

RouteFacts ==
    ("/app/node_modules/@org/edrm-c/routes/c.router.js" :>
        RouteFact("/c", "default", 0, "/c"))
 @@ ("/app/node_modules/edrm-a/dist/routes/a.10.router.js" :>
        RouteFact("/a", "10", 10, "/v10/a"))
 @@ ("/app/node_modules/edrm-a/dist/routes/a.2.router.js" :>
        RouteFact("/a", "2", 2, "/v2/a"))
 @@ ("/app/modules/edrm-a/routes/a.2.router.js" :>
        RouteFact("/a", "2", 2, "/v2/a"))
 @@ ("/app/node_modules/edrm-b/routes/b.3.router.js" :>
        RouteFact("/b", "3", 3, "/v3/b"))
 @@ ("/app/dist/modules/shop/routes/a.2.router.js" :>
        RouteFact("/a", "2", 2, "/v2/a"))
 @@ ("/app/dist/modules/shop/routes/a.router.js" :>
        RouteFact("/a", "default", 0, "/a"))
 @@ ("/app/dist/modules/shop/routes/b.router.js" :>
        RouteFact("/b", "default", 0, "/b"))

\* Indexes of the route loads in imports, of the router layers in stack
RouteLoads == {i \in 1..Len(imports) : imports[i].kind = "route"}

RouterLayers == {i \in 1..Len(stack) : stack[i].kind = "router"}

\* Files held by routesMap
TableFiles ==
    UNION {{routesMap[k].versions[i].filePath :
               i \in 1..Len(routesMap[k].versions)} : k \in 1..Len(routesMap)}

\* C4: for every base path the versions are loaded, and mounted, default
\* first and then in ascending numeric order (2 before 10): of two loads
\* (two mounted handlers) of one base path, the earlier has the lower rank.
C4_VersionOrder ==
    /\ \A i, j \in RouteLoads :
          (/\ i < j
           /\ RouteFacts[imports[i].path].basePath
                 = RouteFacts[imports[j].path].basePath)
              => RouteFacts[imports[i].path].rank
                    < RouteFacts[imports[j].path].rank
    /\ \A i, j \in RouterLayers :
          (/\ i < j
           /\ RouteFacts[stack[i].file].basePath
                 = RouteFacts[stack[j].file].basePath)
              => RouteFacts[stack[i].file].rank < RouteFacts[stack[j].file].rank

\* Base path /a has its default version and its versions 2 and 10 mounted
C4_Witness ==
    /\ pc = "done"
    /\ {"/a", "/v2/a", "/v10/a"} \subseteq {stack[i].path : i \in RouterLayers}

\* C5: every route handler in the stack is mounted at basePath for the
\* default version and at /v<version><basePath> otherwise, with the version
\* as registered; each route file is mounted at most once; when startup is
\* over every registered route file that loads is mounted.
C5_MountPath ==
    /\ \A i \in RouterLayers :
          /\ stack[i].path = RouteFacts[stack[i].file].mount
          /\ \E r \in 1..Len(registered) :
                /\ registered[r].filePath = stack[i].file
                /\ stack[i].path =
                      IF registered[r].version = "default"
                      THEN registered[r].basePath
                      ELSE "/v" \o registered[r].version \o registered[r].basePath
          /\ \A j \in RouterLayers : stack[j].file = stack[i].file => j = i
    /\ pc = "done" => \A f \in TableFiles \ broken : f \in MountedFiles

\* A default version and a numbered version are both mounted
C5_Witness ==
    /\ pc = "done"
    /\ \E i, j \in RouterLayers :
          /\ RouteFacts[stack[i].file].version = "default"
          /\ RouteFacts[stack[j].file].version # "default"

\* The log has a line that names the path
LoggedWithPath(path) ==
    \E i \in 1..Len(log) : indexOf(log[i], path) > 0

\* C10: when startup is over, a registered route file whose load threw has
\* no handler mounted, is not in the list of loaded route files and is named
\* in an error line; every registered route file, of any version and base
\* path, had its load attempted, and those that load are mounted and listed.
C10_RouteLoadFailure ==
    pc = "done" =>
        /\ \A f \in TableFiles \cap broken :
              /\ f \notin MountedFiles
              /\ \A i \in RouterLayers : stack[i].path # RouteFacts[f].mount
              /\ \A i \in 1..Len(swaggerApiFiles) : swaggerApiFiles[i] # f
              /\ LoggedWithPath(f)
        /\ \A f \in TableFiles :
              \E i \in RouteLoads : imports[i].path = f
        /\ \A f \in TableFiles \ broken :
              /\ f \in MountedFiles
              /\ \E i \in 1..Len(swaggerApiFiles) : swaggerApiFiles[i] = f

\* A route file failed to load and another version of its base path, loaded
\* after it, is mounted
C10_Witness ==
    /\ pc = "done"
    /\ \E f \in TableFiles \cap broken, i \in RouterLayers :
          /\ RouteFacts[stack[i].file].basePath = RouteFacts[f].basePath
          /\ RouteFacts[stack[i].file].rank > RouteFacts[f].rank

\* The entries of routesMap in mount order: base path, version, file and the
\* version mounted just before it for the same base path
Consecutive ==
    UNION {{LET sorted == sortedVersions(routesMap[k].versions)
            IN [basePath |-> routesMap[k].basePath,
                version |-> sorted[i],
                filePath |-> versionsGet(routesMap[k].versions, sorted[i]),
                previousVersion |-> sorted[i - 1],
                previousFile |->
                    versionsGet(routesMap[k].versions, sorted[i - 1])] :
               i \in 2..Len(routesMap[k].versions)} : k \in 1..Len(routesMap)}

\* C6: for consecutive numbered versions p, v of a base path, both mounted,
\* a request to /v<v><basePath>/x that only the handler of version p
\* matches is served by the handler of version p with sub-path /x.
C6_FallbackServed ==
    pc = "done" =>
        \A c \in Consecutive :
            (/\ c.previousVersion # "default"
             /\ {c.filePath, c.previousFile} \subseteq MountedFiles
             /\ resp.url = "/v" \o c.version \o c.basePath \o "/x"
             /\ resp.owner = c.previousFile)
                => /\ resp.servedBy = c.previousFile
                   /\ resp.sub = "/x"

\* C7: the rewrite target of every fallback rule is a path at which the
\* predecessor version is mounted: <basePath> when the predecessor is
\* 'default', /v<p><basePath> when it is the numbered version p.
C7_FallbackTarget ==
    \A i \in 1..Len(stack) :
        stack[i].kind = "fallback" =>
            \E c \in Consecutive :
                /\ stack[i].path = "/v" \o c.version \o c.basePath
                /\ stack[i].target = RouteFacts[c.previousFile].mount

\* The registration made, and the handler mounted, for the route file fn
RegisteredAs(fn, basePath, version) ==
    \E r \in 1..Len(registered) :
        /\ registered[r].filePath = fullPath(fn)
        /\ registered[r].basePath = basePath
        /\ registered[r].version = version

MountedAt(fn, path) ==
    \E i \in RouterLayers : stack[i].file = fullPath(fn) /\ stack[i].path = path

\* C8: a route file <name>.<token>.router.js whose token is one run of
\* digits, with or without a leading "v", is registered with the digits as
\* version and /<name> as base path and is mounted at /v<digits>/<name>; a
\* file <name>.router.js is registered as 'default' with base path /<name>.
C8_TokenRegistration ==
    pc = "done" =>
        \A fn \in FileNames :
            fullPath(fn) \in fsFiles =>
                /\ Len(fn.groups) = 1 =>
                      /\ RegisteredAs(fn, "/" \o fn.name, fn.groups[1])
                      /\ MountedAt(fn, "/v" \o fn.groups[1] \o "/" \o fn.name)
                /\ Len(fn.groups) = 0 =>
                      /\ RegisteredAs(fn, "/" \o fn.name, "default")
                      /\ MountedAt(fn, "/" \o fn.name)

\* C9: a route file <name>.<token>.router.js whose token is two or more
\* digit groups separated by dots is registered with the whole token as
\* version and /<name> as base path.
C9_DottedToken ==
    pc = "done" =>
        \A fn \in FileNames :
            (/\ fullPath(fn) \in fsFiles
             /\ fn.prefix = ""
             /\ Len(fn.groups) >= 2)
                => RegisteredAs(fn, "/" \o fn.name, joinGroups(fn.groups))

\* Facts about the files of the layout tree: the name of the folder the file
\* is directly in, and whether a folder named public is above it
LayoutFact(parent, underPublic) == [parent |-> parent, underPublic |-> underPublic]

LayoutFacts ==
    ("/app/dist/modules/shop/foo.router.js" :> LayoutFact("shop", FALSE))
 @@ ("/app/dist/modules/shop/listeners/foo.router.js" :>
        LayoutFact("listeners", FALSE))
 @@ ("/app/dist/modules/shop/routes/foo.router.js" :>
        LayoutFact("routes", FALSE))
 @@ ("/app/dist/modules/shop/subroutes/foo.router.js" :>
        LayoutFact("subroutes", FALSE))
 @@ ("/app/dist/modules/shop/public/index.html" :> LayoutFact("public", TRUE))
 @@ ("/app/dist/modules/shop/public/hook.listener.js" :>
        LayoutFact("public", TRUE))
 @@ ("/app/dist/modules/shop/public/assets/app.js" :>
        LayoutFact("assets", TRUE))
 @@ ("/app/dist/modules/shop/public/listeners/evil.listener.js" :>
        LayoutFact("listeners", TRUE))
 @@ ("/app/dist/modules/shop/public/routes/p.router.js" :>
        LayoutFact("routes", TRUE))

\* C11: a file with the suffix .router.js whose folder has a name other than
\* exactly routes is never registered in the route table, never mounted and
\* never named in an error line.
C11_StrayRouterIgnored ==
    \A f \in fsFiles \cap LayoutFiles :
        (endsWith(f, ".router.js") /\ LayoutFacts[f].parent # "routes")
            => /\ f \notin RegisteredPaths
               /\ f \notin MountedFiles
               /\ ~LoggedWithPath(f)

\* C16: no file beneath a folder named public, however deep, is imported as
\* a unit, registered as a route or loaded as a route.
C16_PublicNotLoaded ==
    \A f \in fsFiles \cap LayoutFiles :
        LayoutFacts[f].underPublic
            => /\ f \notin RegisteredPaths
               /\ \A i \in 1..Len(imports) : imports[i].path # f

TableEntries ==
    UNION {{[basePath |-> routesMap[k].basePath,
             version |-> routesMap[k].versions[i].version,
             filePath |-> routesMap[k].versions[i].filePath] :
               i \in 1..Len(routesMap[k].versions)} : k \in 1..Len(routesMap)}

\* Two discovered route units that yield the same base path and version,
\* the first of a module and the second of the local tree
Collide(u, w) ==
    /\ u.kind = "route" /\ w.kind = "route"
    /\ u.origin = "module" /\ w.origin = "local"
    /\ Discovered(u) /\ Discovered(w)
    /\ RouteFacts[u.path].basePath = RouteFacts[w.path].basePath
    /\ RouteFacts[u.path].version = RouteFacts[w.path].version

\* C13: the route table holds at most one file per (basePath, version), the
\* one registered last for the pair; once the walks are over a local route
\* has replaced the module route of the same pair, which is never mounted,
\* while the local one is (unless its load throws); a start without load or
\* listing failures logs no warning or error, collision or not.
C13_LastWriterWins ==
    /\ \A e1, e2 \in TableEntries :
          (e1.basePath = e2.basePath /\ e1.version = e2.version) => e1 = e2
    /\ Cardinality(TableEntries)
          = Cardinality({<<registered[i].basePath, registered[i].version>> :
                            i \in 1..Len(registered)})
    /\ \A e \in TableEntries : LastRegistration(e.filePath)
    /\ \A u, w \in Units :
          Collide(u, w) =>
              /\ Resolved(u) \notin MountedFiles
              /\ pc \in {"mount", "done"} =>
                    [basePath |-> RouteFacts[w.path].basePath,
                     version |-> RouteFacts[w.path].version,
                     filePath |-> w.path] \in TableEntries
              /\ (pc = "done" /\ w.path \notin broken) => w.path \in MountedFiles
    /\ (broken = {} /\ unreadable = {}) => log = <<>>

\* Startup is over: a module route and a local route collided and the local
\* one is mounted
C13_Witness ==
    /\ pc = "done"
    /\ \E u, w \in Units : Collide(u, w) /\ w.path \in MountedFiles

\* The imports settle one at a time, in the order in which they were started
SettledInOrder ==
    /\ Len(inFlight) <= 1
    /\ Len(imports) = Len(settled) + Len(inFlight)
    /\ \A i \in 1..Len(settled) : settled[i] = imports[i].path
    /\ inFlight # <<>> => inFlight[1].path = imports[Len(imports)].path

\* C18: at most one import is in flight at any time and the loads complete
\* in the order in which they were started, which is the walk order; while
\* an import is in flight the only step taken is the one that settles it:
\* no directory entry is processed, no phase begins, no other import starts.
C18_OneLoadInFlight ==
    /\ []SettledInOrder
    /\ [][inFlight # <<>> =>
              /\ inFlight' = <<>>
              /\ settled' = Append(settled, inFlight[1].path)
              /\ imports' = imports
              /\ work' = work
              /\ pc' = pc
              /\ routesMap' = routesMap]_vars

\* A unit import is in flight after another one has settled and while
\* further steps of the walk are pending
C18_Witness ==
    /\ Len(inFlight) = 1 /\ inFlight[1].by # "loadRoutes"
    /\ settled # <<>>
    /\ work # <<>>

\* C14: when the import of a middleware, listener, consumer or cron unit has
\* thrown, an error line naming the path of the imported file is in the
\* log; and whatever imports throw, once the walks are over every discovered
\* unit has been imported and every discovered route file registered.
C14_UnitFailureContained ==
    /\ \A i \in 1..Len(settled) :
          (imports[i].kind = "unit" /\ settled[i] \in broken)
              => LoggedWithPath(settled[i])
    /\ pc \in {"mount", "done"} =>
          \A u \in Units :
              Discovered(u) =>
                  /\ u.kind \in {"middleware", "listener", "cron"}
                        => Resolved(u) \in ImportedUnits
                  /\ u.kind = "route" => Resolved(u) \in RegisteredPaths

\* The unit has been loaded: imported, mounted as a static folder, or
\* registered as a route and, if its registration is the one the table ends
\* with and its load does not throw, mounted
UnitLoaded(u) ==
    CASE u.kind = "route" ->
            /\ Resolved(u) \in RegisteredPaths
            /\ (LastRegistration(Resolved(u)) /\ Resolved(u) \notin broken)
                  => Resolved(u) \in MountedFiles
      [] u.kind = "static" ->
            \E i \in 1..Len(stack) : stack[i].kind = "static"
      [] OTHER -> Resolved(u) \in ImportedUnits

\* C15: when the listing of a directory has failed during startup, an error
\* line about the listing is in the log and only the units beneath that
\* directory are missing: every unit on disk that is not beneath an
\* unreadable directory has been loaded when startup is over.
C15_ScanFailureContained ==
    pc = "done" =>
        /\ unreadable # {} =>
              \E i \in 1..Len(log) : startsWith(log[i], "Error reading")
        /\ \A u \in Units :
              (u.path \in fsFiles /\ ~UnderUnreadable(u.path)) => UnitLoaded(u)

\* C17: no route file is loaded until the walks of all modules and of the
\* local tree are over: every route load is started by the mount loop with
\* no step of a walk pending, every load of a middleware, listener, consumer
\* or cron unit and every static mount precedes the first route load, and by
\* then every discovered unit has been loaded and every discovered route
\* file is in the route table.
C17_RoutesLoadedLast ==
    /\ \A i \in RouteLoads : imports[i].pc = "mount"
    /\ \A i \in 1..Len(imports), j \in RouteLoads :
          imports[i].kind = "unit" => i < j
    /\ \A i, j \in 1..Len(stack) :
          (stack[i].kind = "static" /\ stack[j].kind = "router") => i < j
    /\ RouteLoadBegun =>
          /\ work = <<>> /\ pc \in {"mount", "done"}
          /\ \A u \in Units :
                Discovered(u) =>
                    /\ u.kind \in {"middleware", "listener", "cron"}
                          => Resolved(u) \in ImportedUnits
                    /\ u.kind = "static"
                          => \E i \in 1..Len(stack) : stack[i].kind = "static"
                    /\ u.kind = "route" => Resolved(u) \in RegisteredPaths

\* A route load has begun after a module route, a local listener and a
\* static folder were discovered
C17_Witness ==
    /\ RouteLoadBegun
    /\ \E u \in Units : u.kind = "route" /\ u.origin = "module" /\ Discovered(u)
    /\ \E u \in Units : u.kind = "listener" /\ u.origin = "local" /\ Discovered(u)
    /\ \E u \in Units : u.kind = "static" /\ Discovered(u)

\* All route mounting is over: the mount loop has gone through every base
\* path and every registered route file that loads is mounted
MountingComplete ==
    /\ pc = "done" /\ bpIdx > Len(routesMap) /\ inFlight = <<>>
    /\ \A f \in TableFiles \ broken : f \in MountedFiles

\* The startup run has come to rest
RunOver == server \in {"started", "idle", "crashed"} \/ pc = "rejected"

\* C19 as stated: in every startup run APP_STARTED is emitted exactly once,
\* and only after all route mounting has completed.
C19_StartedExactlyOnce ==
    /\ emitted <= 1
    /\ emitted >= 1 => MountingComplete
    /\ RunOver => emitted = 1

\* C19: APP_STARTED is emitted at most once in a startup run and only after
\* all route mounting has completed; a run that has come to rest has
\* emitted it exactly when the server listens, which takes direct usage,
\* setupRoutes not having rejected and, if MONGODB_HOST is set, a database
\* connection.
C19_StartedAtMostOnce ==
    /\ emitted <= 1
    /\ emitted >= 1 => (MountingComplete /\ isDirectUsage)
    /\ RunOver => (emitted = 1 <=> server = "started")
    /\ server \in {"listen", "started", "crashed"} =>
          (isDirectUsage /\ pc = "done")
    /\ (RunOver /\ ~isDirectUsage) => emitted = 0

\* The server listens with a versioned route and its fallback rule mounted
C19_Witness ==
    /\ server = "started" /\ emitted = 1
    /\ \E i \in 1..Len(stack) : stack[i].kind = "fallback"

\* The files of the mounted route handlers, in mount order
MountedInOrder ==
    LET layers == SelectSeq(stack, LAMBDA l : l.kind = "router")
    IN [i \in 1..Len(layers) |-> layers[i].file]

\* C20: generateSwaggerSpec is called only once the mount loop is over for
\* every base path, and its argument is the list of the route files whose
\* load and mount succeeded: one entry per mounted handler, in mount order,
\* and no file whose load threw.
C20_SwaggerList ==
    /\ swaggerCall.called =>
          /\ pc \in {"done", "rejected"} /\ bpIdx > Len(routesMap)
          /\ swaggerCall.apiFiles = MountedInOrder
          /\ {swaggerCall.apiFiles[i] : i \in 1..Len(swaggerCall.apiFiles)}
                = TableFiles \ broken
    /\ (pc = "done" /\ enableSwagger) => swaggerCall.called
    /\ ~enableSwagger => ~swaggerCall.called

\* The list was passed with two entries while a third route file failed to load
C20_Witness ==
    /\ swaggerCall.called
    /\ Len(swaggerCall.apiFiles) = 2
    /\ TableFiles \cap broken # {}

-----------------------------------------------------------------------------
(* Facts about the modules of the tree: for each file of a module's content *)
(* root, the phase that loads it and the path of its override under          *)
(* <cwd>/modules/<module name>; and the files that lie outside every         *)
(* content root and override root.                                           *)

ModuleFact(module, path, phase, override) ==
    [module |-> module, path |-> path, phase |-> phase, override |-> override]

ModuleFacts ==
    { ModuleFact("edrm-a",
                 "/app/node_modules/edrm-a/dist/middlewares/auth.middleware.js",
                 "phase1", "/app/modules/edrm-a/middlewares/auth.middleware.js"),
      ModuleFact("edrm-a",
                 "/app/node_modules/edrm-a/dist/listeners/order.listener.js",
                 "phase2", "/app/modules/edrm-a/listeners/order.listener.js"),
      ModuleFact("edrm-b",
                 "/app/node_modules/edrm-b/middlewares/acl.middleware.js",
                 "phase1", "/app/modules/edrm-b/middlewares/acl.middleware.js"),
      ModuleFact("edrm-b", "/app/node_modules/edrm-b/crons/tick.cron.js",
                 "phase2", "/app/modules/edrm-b/crons/tick.cron.js"),
      ModuleFact("@org/edrm-c",
                 "/app/node_modules/@org/edrm-c/routes/c.router.js",
                 "register", "/app/modules/@org/edrm-c/routes/c.router.js") }

\* Files of no content root and of no override root: in the root of a module
\* that has a dist folder, under the override root without the namespace
\* segment, under an override root that repeats the dist segment, and a
\* regular file named dist
OutsideRoots ==
    {"/app/node_modules/edrm-a/middlewares/root.middleware.js",
     "/app/modules/edrm-c/routes/c.router.js",
     "/app/modules/edrm-a/dist/middlewares/auth.middleware.js",
     "/app/node_modules/edrm-b/dist"}

\* Module discovery came to its end
ScopesReadable == "/app/node_modules/@org" \notin unreadable

\* The file the loader takes for the fact: the override if it is on disk
FactSource(m) ==
    IF m.override \in fsFiles THEN m.override ELSE m.path

\* The fact's file was loaded in its phase (registered, for a route file)
LoadedInPhase(m) ==
    IF m.phase = "register"
    THEN \E i \in 1..Len(registered) : registered[i].filePath = FactSource(m)
    ELSE \E i \in 1..Len(imports) :
            imports[i] = [path |-> FactSource(m), kind |-> "unit",
                          pc |-> m.phase]

\* C21: for every registered module both phases walk one content root, the
\* dist subfolder if it is a directory and the module's own root otherwise,
\* paired with the override root <cwd>/modules/<namespaced module name>:
\* once the module phases are over every file of that root has been loaded
\* in its phase from the override if there is one and from the root
\* otherwise, and no file outside these roots is ever loaded or registered.
C21_SingleContentRoot ==
    /\ \A f \in OutsideRoots : f \notin ImportedPaths \cup RegisteredPaths
    /\ (ScopesReadable /\ pc \in {"local", "mount", "done"}) =>
           \A m \in ModuleFacts :
               m.path \in fsFiles /\ ~UnderUnreadable(m.path)
                   => LoadedInPhase(m)

\* The module phases are over on a disk that holds a file of a content root
\* next to a file outside the roots, and the former was loaded
C21_Witness ==
    /\ pc = "done"
    /\ \E f \in OutsideRoots : f \in fsFiles
    /\ \E m \in ModuleFacts : m.path \in fsFiles /\ LoadedInPhase(m)

-----------------------------------------------------------------------------
\* The error handlers stand in the handler stack, one after the other
ErrorHandlersInstalled ==
    \E i \in 1..Len(stack) :
        /\ i + Len(ErrorHandlers) - 1 <= Len(stack)
        /\ SubSeq(stack, i, i + Len(ErrorHandlers) - 1) = ErrorHandlers

\* The mount loop has run for every registered base path and version
MountLoopOver == pc = "done" /\ bpIdx > Len(routesMap) /\ inFlight = <<>>

-----------------------------------------------------------------------------
\* Tools that create files

\* The tools that write a file or create a module directory
CreatingTools ==
    {"create_router", "create_listener", "create_consumer", "create_cron",
     "create_schema", "create_auth", "create_module"}

\* The call found its target on disk when it was made
FoundTarget(r) == r.name \in CreatingTools /\ r.existed

\* C23: a creating tool called while its target file (or module directory)
\* exists returns isError = true and leaves the target as it was, and no
\* tool call ever writes over a file that is already on disk.
C23_NeverOverwrites ==
    \A r \in results :
        /\ FoundTarget(r) => r.isError /\ disk[r.target] = r.old
        /\ r.name \in CreatingTools => r.replaced = Absent

\* The part of C23 about calls that are made one after the other: a call
\* that finds its target returns an error and leaves it as it was
ExistingTargetRefused ==
    \A r \in results : FoundTarget(r) => r.isError /\ disk[r.target] = r.old


\* The tools the README lists under "Available MCP Tools"
ReadmeTools ==
    {"create_router", "create_schema", "create_module", "create_listener",
     "create_consumer", "create_cron", "create_auth", "list_events",
     "list_env_vars"}

ToolNames(seq) == {seq[i].name : i \in 1..Len(seq)}

\* Exactly the README's tools, each once
ExactlyReadmeTools(seq) ==
    Len(seq) = Cardinality(ReadmeTools) /\ ToolNames(seq) = ReadmeTools

\* C24: after any number of calls of registerTools the registry holds exactly
\* the nine tools of the README, each once, and a further call changes
\* nothing; list() returns the nine without their handler, and get(name)
\* returns a handler exactly for the nine names.
C24_RegistryIdempotent ==
    /\ requests > 0 =>
          /\ ExactlyReadmeTools(tools)
          /\ registerTools(tools) = tools
    /\ answer.kind = "list" =>
          /\ ExactlyReadmeTools(answer.tools)
          /\ \A i \in 1..Len(answer.tools) :
                 "handler" \notin DOMAIN answer.tools[i]
    /\ answer.kind = "get" =>
          /\ answer.tool # Undefined <=> answer.name \in ReadmeTools
          /\ answer.name \in ReadmeTools =>
                 answer.tool = [handler |-> ToolEntry(answer.name).handler]

\* The last tool the README names is asked for after the registry was
\* already filled by earlier requests
C24_Witness ==
    /\ requests = MaxCalls
    /\ answer.kind = "get"
    /\ answer.name = "create_auth"
    /\ answer.tool # Undefined
    /\ \E r \in results : r.id < requests


-----------------------------------------------------------------------------
\* Order within a directory

\* A file directly in a directory and a file beneath one of the directory's
\* subdirectories
NestedFact(dir, kind, own, nested) ==
    [dir |-> dir, kind |-> kind, own |-> join(dir, own),
     nested |-> join(dir, nested)]

NestedFacts ==
    {NestedFact("/app/dist/modules/shop/middlewares", "middleware",
                "log.middleware.js", "middlewares/deep.middleware.js"),
     NestedFact("/app/dist/modules/shop/listeners", "other",
                "mail.listener.js", "listeners/deep.listener.js"),
     NestedFact("/app/dist/modules/shop/routes", "route",
                "a.router.js", "routes/a.router.js"),
     NestedFact("/app/dist/modules/shop/routes", "route",
                "a.router.js", "listeners/hook.listener.js")}

\* The walker has processed the file: imported it or registered it
Processed(f) ==
    \/ \E i \in 1..Len(imports) : imports[i].path = f
    \/ \E i \in 1..Len(registered) : registered[i].filePath = f

BothOnDisk(fact) == fact.own \in fsFiles /\ fact.nested \in fsFiles

\* C25 as stated: every file of a directory, its route files included, is
\* processed before the walker recurses into a subdirectory of the directory.
C25_BucketsBeforeSubdirectories ==
    \A fact \in NestedFacts :
        BothOnDisk(fact) /\ Processed(fact.nested) => Processed(fact.own)

\* C25: within each directory the walker processes the middleware files and
\* the other files before it recurses into a subdirectory, and registers the
\* directory's route files after the subdirectories have been walked.
C25_RoutesAfterSubdirectories ==
    \A fact \in NestedFacts :
        BothOnDisk(fact) =>
            IF fact.kind = "route"
            THEN Processed(fact.own) => Processed(fact.nested)
            ELSE Processed(fact.nested) => Processed(fact.own)

\* A route file and a route file beneath it with the same base path and
\* version are both registered, and the table holds the upper one
C25_Witness ==
    \E fact \in NestedFacts :
        /\ fact.kind = "route" /\ BothOnDisk(fact)
        /\ Processed(fact.own) /\ Processed(fact.nested)
        /\ [basePath |-> "/a", version |-> "default", filePath |-> fact.own]
               \in TableEntries

-----------------------------------------------------------------------------
\* Overrides beneath the content root

\* A file of a module at a relative path beneath its content root, the file
\* at the same relative path beneath the override root, and a file that the
\* override root holds elsewhere
OverrideFact(contentRoot, overrideRoot, rel, decoy) ==
    [module |-> join(contentRoot, rel), override |-> join(overrideRoot, rel),
     decoy |-> decoy]

OverrideFacts ==
    {OverrideFact("/app/node_modules/edrm-a/dist", "/app/modules/edrm-a",
                  "listeners/order.listener.js",
                  "/app/modules/edrm-a/listeners/extra.listener.js"),
     OverrideFact("/app/node_modules/edrm-b", "/app/modules/edrm-b",
                  "crons/crons/deep.cron.js",
                  "/app/modules/edrm-b/crons/deep.cron.js"),
     OverrideFact("/app/node_modules/edrm-b", "/app/modules/edrm-b",
                  "middlewares/acl.middleware.js", ""),
     OverrideFact("/app/node_modules/edrm-b", "/app/modules/edrm-b",
                  "routes/b.3.router.js", "")}

\* A subdirectory of a module's content root, the directory at the same
\* relative path beneath the override root, and the unit files either can hold
OverrideDirectory ==
    [module |-> "/app/node_modules/edrm-a/dist/listeners",
     override |-> "/app/modules/edrm-a/listeners",
     units |-> {"order.listener.js", "extra.listener.js"}]

WalksOver == pc \in {"mount", "done"}

\* The file was imported by a walk or entered into the route table
TakenUp(f) == f \in ImportedUnits \/ f \in RegisteredPaths

\* The part of C26 about single files: the override of a module file is
\* looked for at the file's relative path beneath the override root and
\* nowhere else
OverrideAtRelativePath ==
    WalksOver =>
        \A fact \in OverrideFacts :
            fact.module \in fsFiles =>
                /\ fact.override \in fsFiles =>
                       TakenUp(fact.override) /\ ~TakenUp(fact.module)
                /\ fact.override \notin fsFiles =>
                       TakenUp(fact.module) /\ ~TakenUp(fact.decoy)

\* C26: the override of a module file at d1/.../dk/f is the file at
\* d1/.../dk/f beneath the override root, and when the override root holds a
\* directory at the relative path of a module subdirectory, the units loaded
\* for the subdirectory are the unit files of the override directory, not
\* the module's.
C26_OverrideAtEveryDepth ==
    /\ OverrideAtRelativePath
    /\ WalksOver =>
          LET mine == {join(OverrideDirectory.module, u) :
                          u \in OverrideDirectory.units} \cap fsFiles
              theirs == {join(OverrideDirectory.override, u) :
                            u \in OverrideDirectory.units} \cap fsFiles
          IN mine # {} /\ theirs # {} =>
                /\ \A f \in theirs : TakenUp(f)
                /\ \A f \in mine : ~TakenUp(f)


-----------------------------------------------------------------------------
\* Fallback hops

\* The versions registered for the base path
VersionsOf(basePath) ==
    {e.version : e \in {t \in TableEntries : t.basePath = basePath}}

\* C27: a request that no handler under /v<v_i><basePath> matches has its
\* url rewritten at most once, with the prefix of the version just before
\* v_i in the order of the base path, whatever the number of versions; it is
\* not rewritten a second time with the prefix of an earlier version.
C27_SingleHop ==
    pc = "done" /\ resp # NoResp =>
        /\ resp.rewrites <= 1
        /\ resp.rewrites = 1 =>
              \E c \in Consecutive :
                  /\ resp.url = "/v" \o c.version \o c.basePath \o "/x"
                  /\ resp.finalUrl =
                        "/v" \o c.version \o c.basePath
                           \o "/v" \o c.previousVersion \o c.basePath \o "/x"

\* A request to the newest of three versions of a base path is answered by
\* none of its handlers
C27_Witness ==
    /\ pc = "done"
    /\ VersionsOf("/a") = {"default", "2", "10"}
    /\ resp.url = "/v10/a/x"
    /\ resp.servedBy = ""
    /\ resp.rewrites = 1


-----------------------------------------------------------------------------
\* The route table and the mounted routes

\* The mount loop has been entered
MountingBegun == pc \in {"mount", "done", "rejected"}

\* The mount loop has gone through the whole table
MountingOver == MountingBegun /\ bpIdx > Len(routesMap)

\* The route handlers the application holds, with their mount paths
MountedRoutes ==
    {[path |-> stack[i].path, file |-> stack[i].file] : i \in RouterLayers}

\* C28: once mounting has begun no step adds, replaces or removes an entry
\* of the route table, and once the mount loop has gone through the table
\* no step changes the set of mounted routes.
C28_TableFrozen ==
    [][/\ MountingBegun => routesMap' = routesMap
       /\ MountingOver => MountedRoutes' = MountedRoutes]_vars

\* The server listens with two versions of a base path mounted from the
\* table the walks filled
C28_Witness ==
    /\ server = "started"
    /\ MountingOver
    /\ Cardinality(TableEntries) >= 2
    /\ Cardinality(MountedRoutes) >= 2
    /\ Len(registered) >= 2


-----------------------------------------------------------------------------
\* Aggregate errors

\* The import of the file was attempted and rejected with an AggregateError
FailedWithAggregate(f) ==
    /\ f \in ImportedPaths /\ f \in fsFiles /\ f \in broken
    /\ f \notin {inFlight[i].path : i \in 1..Len(inFlight)}
    /\ isAggregateError(f)

\* The last component of the path
LastComponent(f) ==
    LET cut == CHOOSE j \in 0..Len(f) :
                   /\ j = 0 \/ SubSeq(f, j, j) = "/"
                   /\ \A k \in (j + 1)..Len(f) : SubSeq(f, k, k) # "/"
    IN SubSeq(f, cut + 1, Len(f))

\* The log has a line about the failed load of the file, followed by one
\* line for each cause of the failure
CausesLoggedOneByOne(f) ==
    \E i \in 1..Len(log) :
        /\ startsWith(log[i], "Error loading")
        /\ indexOf(log[i], LastComponent(f)) > 0
        /\ i + Len(errorsOf(f)) <= Len(log)
        /\ \A k \in 1..Len(errorsOf(f)) : log[i + k] = errorsOf(f)[k]

\* The part of C29 about route files: the causes of an aggregate error of a
\* route load are logged one by one and the route is not mounted
RouteAggregateUnwrapped ==
    \A f \in RegisteredPaths :
        FailedWithAggregate(f) /\ f \notin ImportedUnits =>
            CausesLoggedOneByOne(f) /\ f \notin MountedFiles

\* A route file has failed with an aggregate error
RouteAggregateSeen ==
    \E f \in RegisteredPaths :
        FailedWithAggregate(f) /\ f \notin ImportedUnits

\* C29: when the load of a unit (middleware, listener, consumer, cron or
\* route) fails with an aggregate error, each of its causes is logged on its
\* own and the unit is left out.
C29_AggregateUnwrapped ==
    \A f \in FileUniverse :
        FailedWithAggregate(f) =>
            CausesLoggedOneByOne(f) /\ f \notin MountedFiles


-----------------------------------------------------------------------------
\* Module discovery

\* The directories with the module prefix directly under node_modules or
\* under a scope directory, in the order of the listings
ExpectedModules == <<"@org/edrm-c", "edrm-a", "edrm-b">>

\* Regular files that carry the prefix, and directories that lack it
NeverModules == {"edrm-notes.txt", "@org/edrm-readme.md", "@org/tool", "express",
                 "@org"}

\* The position in ExpectedModules of the module that holds the file
ModuleRank(f) ==
    CHOOSE k \in 0..Len(ExpectedModules) :
        IF \E j \in 1..Len(ExpectedModules) :
               startsWith(f, join(nodeModulesPath, ExpectedModules[j]) \o "/")
        THEN k > 0 /\ startsWith(f, join(nodeModulesPath, ExpectedModules[k])
                                     \o "/")
        ELSE k = 0

\* The unit imports started during the phase, in order
PhaseImports(phase) ==
    SelectSeq([i \in 1..Len(imports) |-> imports[i]],
              LAMBDA e : e.pc = phase /\ e.kind = "unit")

InListingOrder(seq) ==
    \A i, j \in 1..Len(seq) :
        i < j => ModuleRank(seq[i].path) <= ModuleRank(seq[j].path)

\* C30: when the listings of node_modules and of its scope directories
\* succeed, the registered modules are exactly the directories named edrm-*
\* directly under node_modules and under a scope directory, each once, in
\* the order of the listings; a regular file with the prefix and a
\* directory without it are not registered; and each phase goes through the
\* modules in that order.
C30_ModuleDiscovery ==
    (pc # "modules" /\ ScopesReadable) =>
        /\ [i \in 1..Len(moduleEntries) |-> moduleEntries[i].name]
              = ExpectedModules
        /\ \A i \in 1..Len(moduleEntries) :
              /\ moduleEntries[i].name \notin NeverModules
              /\ moduleEntries[i].path
                    = join(nodeModulesPath, moduleEntries[i].name)
        /\ InListingOrder(PhaseImports("phase1"))
        /\ InListingOrder(PhaseImports("phase2"))

\* Regular files with the prefix lie next to the modules, and a phase has
\* taken up units of two modules
C30_Witness ==
    /\ pc \in {"mount", "done"} /\ ScopesReadable
    /\ \/ "/app/node_modules/edrm-notes.txt" \in fsFiles
       \/ "/app/node_modules/@org/edrm-readme.md" \in fsFiles
    /\ \E phase \in {"phase1", "phase2"} :
          \E i, j \in 1..Len(PhaseImports(phase)) :
              ModuleRank(PhaseImports(phase)[i].path)
                 < ModuleRank(PhaseImports(phase)[j].path)


-----------------------------------------------------------------------------
\* Direct and indirect usage

\* Copies of the package in the nested node_modules of an EDRM module
NestedInstances ==
    {"/app/node_modules/edrm-a/node_modules/@programisto/endurance/dist/internal/app.js",
     "/app/node_modules/@org/edrm-c/node_modules/@programisto/endurance/dist/internal/app.js",
     "/app/node_modules/@programisto/edrm-x/node_modules/@programisto/endurance/dist/internal/app.js"}

\* The copy directly in the project's node_modules
TopLevelInstance ==
    "/app/node_modules/@programisto/endurance/dist/internal/app.js"

\* No ENDURANCE_DIRECT_USAGE override and not a test environment
PlainEnvironment == launch.directUsageEnv = "unset" /\ ~launch.testEnv

\* The part of C31 about the top-level copy: it is classified as direct
\* usage, and a server that is not started is one whose database connection
\* or route setup failed
TopLevelStarts ==
    (PlainEnvironment /\ launch.path = TopLevelInstance) =>
        /\ isDirectUsage
        /\ server = "idle" => mongodbHost

\* The part of C31 that isInMainProjectNodeModules decides: it tells every
\* nested copy from the top-level one, and a nested copy is indirect usage
\* whenever isSymlinkOrSource returns false
NestedPatternRecognised ==
    /\ \A p \in NestedInstances : ~isInMainProjectNodeModules(p)
    /\ isInMainProjectNodeModules(TopLevelInstance)
    /\ (/\ PlainEnvironment /\ launch.path \in NestedInstances
        /\ ~isSymlinkOrSource(launch.symlinkOrSource))
          => ~isDirectUsage /\ server \notin {"listen", "started"}

\* C31: without an ENDURANCE_DIRECT_USAGE override and outside a test
\* environment, a copy in the nested node_modules of an EDRM module is
\* classified as indirect usage and never starts the HTTP server, and the
\* copy directly in the project's node_modules is direct usage.
C31_NestedIsIndirect ==
    PlainEnvironment =>
        /\ launch.path \in NestedInstances =>
              ~isDirectUsage /\ server \notin {"listen", "started"}
        /\ launch.path = TopLevelInstance =>
              isDirectUsage /\ (server = "idle" => mongodbHost)

-----------------------------------------------------------------------------
(* C32: create_module and the module directory                              *)

\* The folder of the module the requests of ModuleRequests ask for
ModuleFolder == join(join(Cwd, "src/modules"), "a")

\* create_module has returned a success result for the folder
ModuleCreated(folder) ==
    \E r \in results :
        r.name = "create_module" /\ r.target = folder /\ ~r.isError

\* An existence check of create_module for the folder that is still awaited
AwaitedChecks(folder) ==
    {c \in calls : /\ c.name = "create_module" /\ c.target = folder
                   /\ Head(c.steps).op = "pathExists"}

\* C32: once create_module has returned a success result for a module, the
\* module directory exists on disk, and the existence check of every further
\* create_module call for it finds the directory (so that the call returns the
\* 'already exists' error), whatever flags the successful call was given.
C32_SuccessLeavesDirectory ==
    ModuleCreated(ModuleFolder) =>
        /\ disk[ModuleFolder] = Directory
        /\ \A c \in AwaitedChecks(ModuleFolder) : pathExists(disk, c.target)

\* Two create_module calls for the module have both returned a success
\* result, the second one called after the first had returned
C32_SecondCallSucceeds ==
    /\ Cardinality({r \in results : r.name = "create_module" /\ ~r.isError}) = 2
    /\ disk[ModuleFolder] = Absent

-----------------------------------------------------------------------------
(* C33: requests that name a tool or a resource                             *)

\* The names and URIs that are registered
RegisteredNames ==
    {createdTools[i].name : i \in 1..Len(createdTools)}
    \cup {createdResources[i].uri : i \in 1..Len(createdResources)}

\* The handler registered under a tool name or a resource URI
RegisteredHandler(name) ==
    IF \E i \in 1..Len(createdTools) : createdTools[i].name = name
    THEN ToolEntry(name).handler
    ELSE ResourceEntry(name).handler

\* The step is a tool call or a resource read
NamingRequest ==
    requests' = requests + 1 /\ answer'.kind \in {"get", "read"}

\* The handler invocations (running or returned) that belong to a request
Invocations(cs, rs, id) ==
    {c \in cs : c.id = id} \cup {r \in rs : r.id = id}

\* A request for a name that is not registered finds nothing ('not found'
\* is thrown), starts no handler, and leaves the disk, the handlers that run,
\* the results and what the registries answer as they were
NotFoundChangesNothing ==
    /\ answer'.tool = Undefined
    /\ Invocations(calls', results', requests') = {}
    /\ UNCHANGED <<disk, calls, results>>
    /\ registerTools(tools') = registerTools(tools)
    /\ registerResources(resources') = registerResources(resources)

\* A request for a registered name finds that entry's handler and invokes it,
\* once, and no other
InvokedOnce ==
    /\ answer'.tool = [handler |-> RegisteredHandler(answer'.name)]
    /\ Cardinality(Invocations(calls', results', requests')) = 1
    /\ \A c \in Invocations(calls', results', requests') :
          c.name = answer'.name
    /\ (calls' \cup results') \ (calls \cup results)
          = Invocations(calls', results', requests')

RegistryFilledByUnknown ==
    answer.kind = "get" /\ answer.tool = Undefined /\ requests = 1
        => tools = createdTools

-----------------------------------------------------------------------------
(* C34: one fallback rule per non-first version                              *)

\* The route handlers and fallback rules of the handler stack, in order
MountedLayers ==
    SelectSeq(stack, LAMBDA layer : layer.kind \in {"router", "fallback"})

\* What the mount attempt of sorted[index] of a base path leaves in the
\* stack: the route handler if the file loaded, then, for every version but
\* the first, the fallback rule at /v<version><basePath>
AttemptLayers(basePath, versionsMap, index) ==
    LET sorted == sortedVersions(versionsMap)
        version == sorted[index]
        filePath == versionsGet(versionsMap, version)
    IN (IF importOk(filePath)
        THEN <<RouterLayer(IF version = "default" THEN basePath
                           ELSE "/v" \o version \o basePath, filePath)>>
        ELSE <<>>)
       \o (IF index > 1
           THEN <<FallbackLayer("/v" \o version \o basePath,
                                "/v" \o sorted[index - 1] \o basePath)>>
           ELSE <<>>)

RECURSIVE AttemptsFrom(_, _)
\* The layers of the mount attempts from sorted[index] of the k-th base path
\* of the table to the end of the table
AttemptsFrom(k, index) ==
    IF k > Len(routesMap) THEN <<>>
    ELSE IF index > Len(routesMap[k].versions) THEN AttemptsFrom(k + 1, 1)
    ELSE AttemptLayers(routesMap[k].basePath, routesMap[k].versions, index)
         \o AttemptsFrom(k, index + 1)

\* The fallback rules installed at a path
FallbacksAt(path) ==
    {i \in 1..Len(stack) : stack[i].kind = "fallback" /\ stack[i].path = path}

\* C34: once the routes are mounted, every non-first version of a base path
\* has exactly one fallback rule, at /v<version><basePath>, that stands in the
\* handler stack right after what the mount attempt of that version left
\* (its route handler, or nothing if the file failed to load); the first
\* version of a base path has none.
C34_OneFallbackPerLaterVersion ==
    MountingOver =>
        /\ MountedLayers = AttemptsFrom(1, 1)
        /\ \A k \in 1..Len(routesMap) :
              LET sorted == sortedVersions(routesMap[k].versions)
              IN \A index \in 1..Len(sorted) :
                    Cardinality(FallbacksAt("/v" \o sorted[index]
                                            \o routesMap[k].basePath))
                      = IF index > 1 THEN 1 ELSE 0

\* The routes are mounted; a later version of a base path failed to load and
\* has its fallback rule all the same, right after the first version's handler
C34_Witness ==
    /\ MountingOver
    /\ \E k \in 1..Len(routesMap) :
          LET sorted == sortedVersions(routesMap[k].versions)
          IN /\ Len(sorted) > 1
             /\ ~importOk(versionsGet(routesMap[k].versions, sorted[2]))
             /\ importOk(versionsGet(routesMap[k].versions, sorted[1]))
             /\ \E i \in 2..Len(stack) :
                   /\ stack[i].kind = "fallback"
                   /\ stack[i].path = "/v" \o sorted[2] \o routesMap[k].basePath
                   /\ stack[i - 1].kind = "router"
                   /\ stack[i - 1].file
                        = versionsGet(routesMap[k].versions, sorted[1])

-----------------------------------------------------------------------------
(* C35: every middleware is loaded once                                     *)

\* The positions of imports at which a middleware unit is loaded
MiddlewareLoads ==
    {i \in 1..Len(imports) :
        imports[i].kind = "unit" /\ endsWith(imports[i].path, ".middleware.js")}

\* The file belongs to the local tree (dist/modules or src/modules)
InLocalTree(filePath) ==
    \/ startsWith(filePath, join(Cwd, "dist/modules") \o "/")
    \/ startsWith(filePath, join(Cwd, "src/modules") \o "/")

\* C35: during one startup no middleware has its load attempted more than
\* once: the middleware of a marketplace module (its own file or its
\* override) is loaded in the middleware phase and not in the content phase,
\* and a middleware of the local tree is loaded by the local walk only.
C35_MiddlewareLoadedOnce ==
    \A i \in MiddlewareLoads :
        /\ \A j \in MiddlewareLoads : imports[j].path = imports[i].path => j = i
        /\ imports[i].pc = IF InLocalTree(imports[i].path) THEN "local"
                           ELSE "phase1"

\* Startup is over; a module middleware and a local middleware were loaded
C35_Witness ==
    /\ pc = "done"
    /\ \E i, j \in MiddlewareLoads :
          InLocalTree(imports[i].path) /\ ~InLocalTree(imports[j].path)

-----------------------------------------------------------------------------
(* C36: files that only the override root holds                             *)

\* The content root and the override root of the modules of OverrideFiles
OverrideRoots ==
    {[content |-> "/app/node_modules/edrm-a/dist",
      override |-> "/app/modules/edrm-a"],
     [content |-> "/app/node_modules/edrm-b",
      override |-> "/app/modules/edrm-b"]}

\* The file is beneath an override root and the module has no file at the
\* same relative path beneath its content root
OnlyUnderOverride(f) ==
    \E root \in OverrideRoots :
        /\ startsWith(f, root.override \o "/")
        /\ join(root.content, SubSeq(f, Len(root.override) + 2, Len(f)))
              \notin fsFiles

\* A regular file of the module whose name is, beneath the override root, the
\* name of a directory
ShadowedByDirectory ==
    {f \in fsFiles :
        \E root \in OverrideRoots :
            /\ startsWith(f, root.content \o "/")
            /\ isDirectory(join(root.override,
                                SubSeq(f, Len(root.content) + 2, Len(f))))}

\* C36: a file that only the override root of a module holds, with no file of
\* the same name at the same relative path beneath the module's content root,
\* is never imported and never entered into the route table.
C36_OverrideOnlyNeverLoaded ==
    \A f \in fsFiles : OnlyUnderOverride(f) => ~TakenUp(f)

\* C36 holds as long as no regular file of a module has the name of a
\* directory of the override root
OverrideOnlyNeverLoadedUnshadowed ==
    ShadowedByDirectory = {} => C36_OverrideOnlyNeverLoaded

\* The walks are over and a file that only the override root holds was loaded
OverrideOnlyLoaded ==
    WalksOver /\ \E f \in fsFiles : OnlyUnderOverride(f) /\ TakenUp(f)

-----------------------------------------------------------------------------
(* C37: two create_router calls for one file                                *)

\* Two create_router calls for the same file that were in flight together:
\* neither found the file when it was called, so the later one was called
\* before the earlier one had written
InFlightTogether(r1, r2) ==
    /\ r1.name = "create_router" /\ r2.name = "create_router"
    /\ r1.id < r2.id /\ r1.target = r2.target
    /\ ~r1.existed /\ ~r2.existed

\* C37: of two create_router calls for the same file that are in flight at
\* the same time, at most one returns a success result; the other returns
\* the 'already exists' error.
C37_AtMostOneSucceeds ==
    \A r1, r2 \in results :
        InFlightTogether(r1, r2) => (r1.isError \/ r2.isError)

\* Both calls returned a success result and the second write replaced the
\* file the first had written
BothRoutersWritten ==
    \E r1, r2 \in results :
        /\ InFlightTogether(r1, r2)
        /\ ~r1.isError /\ ~r2.isError
        /\ Absent \in {r1.replaced, r2.replaced}
        /\ {r1.replaced, r2.replaced} # {Absent}

-----------------------------------------------------------------------------
(* C38: the order of the startup steps                                      *)

\* The startup step a layer of the handler stack belongs to: 1 route mounts
\* and fallback rules, 2 documentation endpoints, 3 the 404 handler and the
\* error handler, 4 the session middleware; 0 for any other layer
StartupStep(layer) ==
    CASE layer.kind \in {"router", "fallback"} -> 1
      [] layer.kind = "docs" -> 2
      [] layer.kind \in {"notFound", "errorHandler"} -> 3
      [] layer.kind = "session" -> 4
      [] OTHER -> 0

\* The positions of the stack that hold a layer of the given kind
LayersOf(kind) == {i \in 1..Len(stack) : stack[i].kind = kind}

\* startServer has been called
ListenCalled == server \in {"listen", "started", "crashed"}

\* C38: the handler stack, which is in registration order, holds every route
\* mount and fallback rule before the documentation endpoints, these before
\* the 404 handler and the error handler, and these before the session
\* middleware; no step is taken before the mount loop is over except the
\* first; the server listens only after all of them; and the session
\* middleware stands after the 404 handler.
C38_StartupOrder ==
    /\ \A i, j \in 1..Len(stack) :
          (i < j /\ StartupStep(stack[i]) > 0 /\ StartupStep(stack[j]) > 0)
              => StartupStep(stack[i]) <= StartupStep(stack[j])
    /\ (\E i \in 1..Len(stack) : StartupStep(stack[i]) > 1) => MountingOver
    /\ ListenCalled =>
          /\ pc = "done" /\ MountingOver
          /\ enableSwagger => LayersOf("docs") # {}
          /\ ErrorHandlersInstalled
          /\ Cardinality(LayersOf("session")) = 1
    /\ \A j \in LayersOf("session") :
          \E i \in LayersOf("notFound") : i < j

\* The server listens with a route, its fallback rule, the documentation
\* endpoints, the error handlers and the session middleware of the database
C38_Witness ==
    /\ server = "started" /\ mongodbHost /\ enableSwagger
    /\ LayersOf("fallback") # {} /\ LayersOf("docs") # {}
    /\ \E j \in LayersOf("session") : stack[j].file = "createStore"

====
